---- MODULE Spec2Model ----
(***************************************************************************)
(* Event planner worker: the Slack webhook handler, the Slack service, the  *)
(* event-approval handler and the chat handler, as a state machine over    *)
(* one request at a time.  Every request is handled statelessly: the worker keeps nothing   *)
(* between requests except its configuration (env) and the clock.          *)
(*                                                                         *)
(* Strings that the code only compares are TLA+ strings; strings that the  *)
(* code parses or searches are sequences of characters or of words.  An    *)
(* absent (undefined) optional string is "", which is falsy in the code as *)
(* well.                                                                   *)
(***************************************************************************)
EXTENDS Integers, Sequences, FiniteSets, TLC

VARIABLES
    env,        \* Env: SLACK_SIGNING_SECRET, SLACK_BOT_TOKEN ("" = not configured)
    now,        \* Math.floor(Date.now() / 1000)
    pc,         \* position of the request in flight
    handler,    \* "none", "webhook", "approval" or "chat"
    req,        \* the inbound request
    resp,       \* the Response returned
    parsed,     \* the webhook body has been handed to JSON.parse
    aiCalls,    \* number of env.AI.run calls made for this request
    histCalls,  \* number of conversations.history calls made for this request
    posts,      \* chat.postMessage calls made for this request, in order
    plan,       \* the eventPlan object the handler holds
    loc,        \* locals of handleSlackMessage / handleSlackMention
    waiting     \* another request, whose handler is suspended at an await

vars == <<env, now, pc, handler, req, resp, parsed, aiCalls, histCalls, posts, plan, loc,
          waiting>>

-----------------------------------------------------------------------------
(* Bounds of the model *)

\* the clock may advance this many seconds while requests are handled
MaxTicks == 1

\* the clock at start
StartTime == 1000

\* the longest channel history the platform returns to a recovery
MaxWindow == 3

\* verifySlackSignature: the freshness window in seconds
MaxSkew == 300

-----------------------------------------------------------------------------
(* Numbers and strings *)

Abs(x) == IF x < 0 THEN -x ELSE x

Digits == {"0", "1", "2", "3", "4", "5", "6", "7", "8", "9"}

DigitVal(c) ==
    CASE c = "0" -> 0 [] c = "1" -> 1 [] c = "2" -> 2 [] c = "3" -> 3
      [] c = "4" -> 4 [] c = "5" -> 5 [] c = "6" -> 6 [] c = "7" -> 7
      [] c = "8" -> 8 [] c = "9" -> 9

RECURSIVE LeadingDigits(_)
LeadingDigits(s) ==
    IF s = <<>> \/ Head(s) \notin Digits THEN <<>>
    ELSE <<Head(s)>> \o LeadingDigits(Tail(s))

RECURSIVE DigitsValue(_, _)
DigitsValue(s, acc) ==
    IF s = <<>> THEN acc ELSE DigitsValue(Tail(s), 10 * acc + DigitVal(Head(s)))

RECURSIVE SkipSpaces(_)
SkipSpaces(s) == IF s # <<>> /\ Head(s) = " " THEN SkipSpaces(Tail(s)) ELSE s

\* parseInt(string): leading white space, an optional sign, then the longest
\* run of decimal digits; NaN when there is no digit.
parseInt(s) ==
    LET t    == SkipSpaces(s)
        neg  == t # <<>> /\ Head(t) = "-"
        u    == IF t # <<>> /\ Head(t) \in {"-", "+"} THEN Tail(t) ELSE t
        ds   == LeadingDigits(u)
    IN  IF ds = <<>> THEN [nan |-> TRUE, val |-> 0]
        ELSE [nan |-> FALSE,
              val |-> IF neg THEN -DigitsValue(ds, 0) ELSE DigitsValue(ds, 0)]

-----------------------------------------------------------------------------
(* verifySlackSignature (slack.ts) *)

\* HMAC-SHA256: an injective function of key and message
HmacSha256(key, msg) == [key |-> key, msg |-> msg]

\* `v0:${timestamp}:${body}`
BaseString(timestamp, body) == <<"v0:">> \o timestamp \o <<":">> \o <<body>>

\* "v0=" + hex(digest); hex encoding is injective
SignatureOf(secret, timestamp, body) ==
    [pre |-> "v0=", hex |-> HmacSha256(secret, BaseString(timestamp, body))]

\* headers.get('X-Slack-Signature') || '' when the header is missing
EmptySignature == [pre |-> "", hex |-> HmacSha256("", <<>>)]

\* the check without Math.abs: only old timestamps are refused
TooOldPastOnly(currentTime, timestamp) ==
    LET requestTime == parseInt(timestamp)
    IN  ~requestTime.nan /\ currentTime - requestTime.val > MaxSkew

\* Math.abs(currentTime - requestTime) > 300; every comparison with NaN is false
TooOld(currentTime, timestamp) ==
    LET requestTime == parseInt(timestamp)
    IN  ~requestTime.nan /\ Abs(currentTime - requestTime.val) > MaxSkew

\* the signature computed over the body parsed and encoded again
verifyReencodedBody(signingSecret, timestamp, body, signature, currentTime) ==
    IF TooOld(currentTime, timestamp) THEN FALSE
    ELSE SignatureOf(signingSecret, timestamp, [doc |-> body.doc, ws |-> 0]) = signature

verifySlackSignature(signingSecret, timestamp, body, signature, currentTime) ==
    IF TooOld(currentTime, timestamp) THEN FALSE
    ELSE SignatureOf(signingSecret, timestamp, body) = signature

-----------------------------------------------------------------------------
(* Inputs: the webhook request *)

\* X-Slack-Request-Timestamp, as characters; <<>> is a missing header
TimestampHeaders ==
    { <<>>,
      <<"a", "b">>,
      <<"6", "9", "9">>,
      <<"7", "0", "0">>,
      <<"1", "0", "0", "0">>,
      <<"1", "3", "0", "0">>,
      <<"1", "3", "0", "1">>,
      <<"1", "3", "0", "2">> }

\* event.text as words
Texts ==
    { <<"hello", "team">>,
      <<"Plan", "a", "party">>,
      <<"Party", "time">>,
      <<"<@U1>", "plan", "an", "event">>,
      <<"<@U1>", "swap", "the", "items">> }

\* event.text is absent, a string, or (malformed) a number
Events ==
    [type : {"message", "app_mention", "reaction_added"},
     bot_id : {"", "B1"},
     textKind : {"string"},
     text : Texts,
     channel : {"C1"}]
    \cup
    [type : {"message", "app_mention"},
     bot_id : {"", "B1"},
     textKind : {"absent", "number"},
     text : {<<>>},
     channel : {"C1"}]

NoEvent == [type |-> "", bot_id |-> "", textKind |-> "absent", text |-> <<>>, channel |-> ""]

Challenges == {"abc123", "tok2"}

\* What the body text is: not JSON at all, the JSON text null, or a JSON object
Docs ==
    [kind : {"malformed", "null"}, type : {""}, challenge : {""},
     hasEvent : {FALSE}, event : {NoEvent}]
    \cup
    [kind : {"object"}, type : {"url_verification"}, challenge : Challenges,
     hasEvent : {FALSE}, event : {NoEvent}]
    \cup
    [kind : {"object"}, type : {"event_callback"}, challenge : {""},
     hasEvent : {TRUE}, event : Events]
    \cup
    [kind : {"object"}, type : {"event_callback", "block_actions"}, challenge : {""},
     hasEvent : {FALSE}, event : {NoEvent}]

\* The raw body: a document and the white space it is written with
Bodies == [doc : Docs, ws : {0}] \cup [doc : {d \in Docs : d.type = "url_verification"}, ws : {1}]

\* the same document written differently: other bytes, same parse
Reformatted(body) == [body EXCEPT !.ws = 1 - body.ws]

\* X-Slack-Signature values a sender may supply for (timestamp, body)
SignatureHeaders(timestamp, body) ==
    { SignatureOf("s1", timestamp, body),
      SignatureOf("s1", timestamp, Reformatted(body)),
      SignatureOf("s1", <<"1", "0", "0", "0">>, body),
      SignatureOf("other", timestamp, body),
      EmptySignature }

\* a parser that repairs what it cannot read into a message event
JsonParseLenient(body) ==
    IF body.doc.kind # "malformed" THEN body.doc
    ELSE [kind |-> "object", type |-> "event_callback", challenge |-> "", hasEvent |-> TRUE,
          event |-> [type |-> "message", bot_id |-> "", textKind |-> "string",
                     text |-> <<"Plan", "a", "party">>, channel |-> "C1"]]

\* JSON.parse(body): white space is not part of the value; a document of
\* kind "malformed" stands for the SyntaxError
JsonParse(body) == body.doc

-----------------------------------------------------------------------------
(* EventPlan (types.ts) and the Slack service (slack.ts) *)

Statuses == {"draft", "approved", "sent_to_slack"}

\* position of a status in the lifecycle draft -> approved -> sent_to_slack
StatusRank(st) == CASE st = "draft" -> 0 [] st = "approved" -> 1 [] st = "sent_to_slack" -> 2

\* An EventPlan as it arrives in JSON: guests and budget may be missing
\* (hasGuests, hasBudget), the other optional strings are "" when absent.
Plans ==
    [id : {"p1"},
     title : {<<"Team", "Party">>},
     date : {"2025-06-01"},
     hasGuests : {TRUE},
     guests : {<<>>, <<"ann", "bob">>},
     timeline : {<<"book venue", "send invites">>},
     hasBudget : BOOLEAN,
     budget : {1500},
     venue : {"", "Hall"},
     description : {""},
     status : Statuses,
     slackChannelId : {"", "C9"},
     createdAt : {StartTime - 10},
     updatedAt : {StartTime - 10}]
    \cup
    [id : {"p1"},
     title : {<<"Team", "Party">>},
     date : {"2025-06-01"},
     hasGuests : {FALSE},
     guests : {<<>>},
     timeline : {<<>>},
     hasBudget : {TRUE},
     budget : {800},
     venue : {"Hall"},
     description : {"fun"},
     status : {"draft"},
     slackChannelId : {""},
     createdAt : {StartTime - 10},
     updatedAt : {StartTime - 10}]
    \cup
    \* the draft the chat endpoint returned, submitted as it came
    [id : {"uuid-1"},
     title : {<<"Team", "Party">>},
     date : {"2025-06-01"},
     hasGuests : {TRUE},
     guests : {<<"ann">>},
     timeline : {<<"book venue", "send invites">>},
     hasBudget : {TRUE},
     budget : {1500},
     venue : {"Hall"},
     description : {""},
     status : {"draft"},
     slackChannelId : {""},
     createdAt : {StartTime},
     updatedAt : {StartTime}]

NoPlan ==
    [id |-> "", title |-> <<>>, date |-> "", hasGuests |-> FALSE, guests |-> <<>>,
     timeline |-> <<>>, hasBudget |-> FALSE, budget |-> 0, venue |-> "",
     description |-> "", status |-> "", slackChannelId |-> "",
     createdAt |-> 0, updatedAt |-> 0]

\* A block of a Slack message.  A text is a sequence of lines (the code
\* joins and splits them on "\n"), a line a sequence of words.
Block(type, text, fields, elements) ==
    [type |-> type, text |-> text, fields |-> fields, elements |-> elements]

\* eventDate.toLocaleDateString("en-US", {weekday, year, month, day: long})
LongDate(date) == <<"long-en-US", date>>

\* number.toLocaleString(): groups of three digits separated by ","
LocaleNumber(n) ==
    LET r == n % 1000
        group == IF r < 10 THEN <<"0", "0", ToString(r)>>
                 ELSE IF r < 100 THEN <<"0", ToString(r)>>
                 ELSE <<ToString(r)>>
    IN  IF n >= 1000 THEN <<ToString(n \div 1000), ",">> \o group
        ELSE <<ToString(n)>>

\* the items are numbered with their index
NumberedLinesFromZero(items) == [i \in 1..Len(items) |-> <<ToString(i - 1), ".", items[i]>>]

\* event.timeline.map((item, index) => `${index + 1}. ${item}`)
NumberedLines(items) == [i \in 1..Len(items) |-> <<ToString(i), ".", items[i]>>]

\* event.guests.map((guest) => `(bullet) ${guest}`): the bullet is the
\* character U+2022, not an asterisk
BulletLines(items) == [i \in 1..Len(items) |-> <<"(bullet)", items[i]>>]

\* formatEventMessage reads event.guests.length and event.budget.toLocaleString()
\* unguarded: a TypeError when either is missing
FormatThrows(event) == ~event.hasGuests \/ ~event.hasBudget

formatEventMessage(event, today) ==
    LET header == Block("header", <<event.title>>, <<>>, <<>>)
        fields == Block("section", <<>>,
                     << <<(<<"*Date:*">>), LongDate(event.date)>>,
                        <<(<<"*Expected Guests:*">>),
                          IF Len(event.guests) > 0
                          THEN <<ToString(Len(event.guests))>> ELSE <<"TBD">> >>,
                        <<(<<"*Budget:*">>), <<"$">> \o LocaleNumber(event.budget)>>,
                        <<(<<"*Venue:*">>),
                          IF event.venue # "" THEN <<event.venue>> ELSE <<"TBD">> >> >>,
                     <<>>)
        desc == IF event.description # ""
                THEN <<Block("section",
                             <<(<<"*Description:*">>), <<event.description>> >>,
                             <<>>, <<>>)>>
                ELSE <<>>
        tl   == IF Len(event.timeline) > 0
                THEN <<Block("section",
                             <<(<<"*Timeline:*">>)>> \o NumberedLines(event.timeline),
                             <<>>, <<>>)>>
                ELSE <<>>
        gl   == IF Len(event.guests) > 0
                THEN <<Block("section",
                             <<(<<"*Guest List:*">>)>> \o BulletLines(event.guests),
                             <<>>, <<>>)>>
                ELSE <<>>
        foot == << Block("divider", <<>>, <<>>, <<>>),
                   Block("context", <<>>, <<>>,
                         << <<(<<"Event created by AI Event Planner", ToString(today)>>)>> >>) >>
    IN  [channel |-> event.slackChannelId,
         text    |-> << <<"Event", "Plan:">> \o event.title >>,
         blocks  |-> <<header, fields>> \o desc \o tl \o gl \o foot]

\* What chat.postMessage may do: answer ok, answer with an error, or fail
\* in fetch / response.json(), which postMessage turns into "Network error"
SlackOutcomes == {"ok", "channel_not_found", "throws"}

\* postMessage: the result handed to the caller; it never throws
postMessage(outcome) ==
    CASE outcome = "ok" -> [ok |-> TRUE, error |-> ""]
      [] outcome = "throws" -> [ok |-> FALSE, error |-> "Network error"]
      [] OTHER -> [ok |-> FALSE, error |-> outcome]

\* a chat.postMessage call as the platform sees it; result is "pending"
\* until the call returns, then "ok" or "failed"
PostRecord(kind, message, token) ==
    [kind |-> kind, channel |-> message.channel, text |-> message.text,
     blocks |-> message.blocks, token |-> token, result |-> "pending", error |-> ""]

\* the last call of the log, resolved
Resolve(log, result) ==
    [log EXCEPT ![Len(log)].result = IF result.ok THEN "ok" ELSE "failed",
                ![Len(log)].error = result.error]

\* postEventPlan returns early, without a network call, for a plan with no channel
NoChannelResult == [ok |-> FALSE, error |-> "No Slack channel ID specified"]

\* the channel guard is missing
postEventPlanUnguarded(event) ==
    IF FormatThrows(event) THEN "throws"
    ELSE "send"

\* postEventPlan up to its network call: "no_channel" (early failure result),
\* "throws" (formatEventMessage throws) or "send" (chat.postMessage is called)
postEventPlan(event) ==
    IF event.slackChannelId = "" THEN "no_channel"
    ELSE IF FormatThrows(event) THEN "throws"
    ELSE "send"

-----------------------------------------------------------------------------
(* Text search, on words *)

\* word.toLowerCase(), for the words of the model that have capitals
Lower(w) ==
    CASE w = "Plan" -> "plan" [] w = "Party" -> "party" [] w = "Event" -> "event"
      [] w = "Team" -> "team" [] w = "Update" -> "update" [] OTHER -> w

ToLower(text) == [i \in 1..Len(text) |-> Lower(text[i])]

\* pairs <<word, part>> where part is a proper substring of word
Substrings ==
    { <<"planning", "plan">>, <<"events", "event">>, <<"*Timeline:*", "Timeline:">>,
      <<"*Date:*", "Date:">>, <<"*Budget:*", "Budget:">>, <<"*Venue:*", "Venue:">>,
      <<"gateway timeout", "timeout">>, <<"AI request timeout", "timeout">> }

WordIncludes(w, part) == w = part \/ <<w, part>> \in Substrings

\* text.includes(part) for a one-word part
Includes(text, part) == \E i \in 1..Len(text) : WordIncludes(text[i], part)

\* lines.join("\n").includes(part)
LinesInclude(lines, part) == \E i \in 1..Len(lines) : Includes(lines[i], part)

-----------------------------------------------------------------------------
(* Recovering a plan from channel history (handlers/slack.ts) *)

\* the party-popper glyph the decoder looks for
Glyph == ":tada:"

\* recentEventPlan.timeline.slice(0, 7)
TimelineSlice == 7

\* A partial plan: each key is set or not; a set key may hold undefined (<<>>)
NullPlan ==
    [isNull |-> TRUE, hasTitle |-> FALSE, title |-> <<>>, hasDate |-> FALSE, date |-> <<>>,
     hasBudget |-> FALSE, budget |-> <<>>, hasVenue |-> FALSE, venue |-> <<>>,
     hasTimeline |-> FALSE, timeline |-> <<>>]

\* Object.keys(eventPlan).length > 0 ? eventPlan : null
OrNull(p) ==
    IF p.hasTitle \/ p.hasDate \/ p.hasBudget \/ p.hasVenue \/ p.hasTimeline
    THEN [p EXCEPT !.isNull = FALSE] ELSE NullPlan

RECURSIVE AllFields(_)
\* the fields of the section blocks that have fields, in order
AllFields(blocks) ==
    IF blocks = <<>> THEN <<>>
    ELSE (IF Head(blocks).type = "section" THEN Head(blocks).fields ELSE <<>>)
         \o AllFields(Tail(blocks))

\* the if / else-if chain on a field's text
FieldKind(field) ==
    IF LinesInclude(field, "Date:") THEN "date"
    ELSE IF LinesInclude(field, "Budget:") THEN "budget"
    ELSE IF LinesInclude(field, "Venue:") THEN "venue"
    ELSE "none"

\* lines[1]?.trim(): the second line, undefined when there is none
SecondLine(field) == IF Len(field) >= 2 THEN field[2] ELSE <<>>

\* the value of the last field of a kind (later assignments overwrite)
LastOfKind(fields, kind) ==
    LET hits == SelectSeq(fields, LAMBDA f : FieldKind(f) = kind)
    IN  IF hits = <<>> THEN <<>> ELSE SecondLine(hits[Len(hits)])

\* budgetText.replace(/[$,]/g, '')
StripCurrency(line) == SelectSeq(line, LAMBDA w : w \notin {"$", ","})

\* text.replace(/\*Timeline:\*\s*\n/, '').split('\n'), trimmed, empty lines dropped
TimelineLines(text) ==
    LET rest == IF Len(text) >= 2 /\ text[1] = <<"*Timeline:*">> THEN Tail(text) ELSE text
    IN  SelectSeq(rest, LAMBDA l : l # <<>>)

\* the timeline is taken from the last text section, whatever its label
extractEventFromAnySection(blocks) ==
    LET headers  == SelectSeq(blocks, LAMBDA b : b.type = "header")
        hasTitle == headers # <<>> /\ headers[1].text # <<>> /\ headers[1].text[1] # <<>>
        tls      == SelectSeq(blocks, LAMBDA b :
                        b.type = "section" /\ b.fields = <<>> /\ b.text # <<>>)
    IN  OrNull(
          [NullPlan EXCEPT
             !.isNull = FALSE,
             !.hasTitle = hasTitle,
             !.title = IF hasTitle THEN headers[1].text[1] ELSE <<>>,
             !.hasTimeline = tls # <<>>,
             !.timeline = IF tls # <<>> THEN TimelineLines(tls[Len(tls)].text) ELSE <<>>])

extractEventFromBlocks(blocks) ==
    LET headers  == SelectSeq(blocks, LAMBDA b : b.type = "header")
        hasTitle == headers # <<>> /\ headers[1].text # <<>> /\ headers[1].text[1] # <<>>
        fields   == AllFields(blocks)
        kinds    == {FieldKind(fields[i]) : i \in 1..Len(fields)}
        tls      == SelectSeq(blocks, LAMBDA b :
                        /\ b.type = "section" /\ b.fields = <<>> /\ b.text # <<>>
                        /\ LinesInclude(b.text, "Timeline:"))
    IN  OrNull(
          [isNull |-> FALSE,
           hasTitle |-> hasTitle,
           title |-> IF hasTitle
                     THEN SelectSeq(headers[1].text[1], LAMBDA w : w # Glyph) ELSE <<>>,
           hasDate |-> "date" \in kinds,
           date |-> LastOfKind(fields, "date"),
           hasBudget |-> "budget" \in kinds,
           budget |-> StripCurrency(LastOfKind(fields, "budget")),
           hasVenue |-> "venue" \in kinds,
           venue |-> LastOfKind(fields, "venue"),
           hasTimeline |-> tls # <<>>,
           timeline |-> IF tls # <<>> THEN TimelineLines(tls[Len(tls)].text) ELSE <<>>])

NumberWords == {"1", "2", "3", "4", "5", "6", "7", "8", "9"}

\* /^\d+\./.test(line)
IsNumbered(line) == Len(line) >= 2 /\ line[1] \in NumberWords /\ line[2] = "."

\* item.replace(/^\d+\.\s*/, '')
StripNumbering(line) == IF IsNumbered(line) THEN SubSeq(line, 3, Len(line)) ELSE line

\* index of the first word of the line that is the glyph, 0 when none
GlyphAt(line) ==
    IF \E i \in 1..Len(line) : line[i] = Glyph
    THEN CHOOSE i \in 1..Len(line) :
            /\ line[i] = Glyph
            /\ \A j \in 1..(i - 1) : line[j] # Glyph
    ELSE 0

\* the words of the model that begin with "*"
StarWords ==
    {"*", "*Date:*", "*Expected Guests:*", "*Budget:*", "*Venue:*", "*Description:*",
     "*Timeline:*", "*Guest List:*"}

\* lines up to, not including, the first line that starts with "*"
RECURSIVE UntilStar(_)
UntilStar(lines) ==
    IF lines = <<>> THEN <<>>
    ELSE IF Head(lines) # <<>> /\ Head(Head(lines)) \in StarWords
    THEN <<>>
    ELSE <<Head(lines)>> \o UntilStar(Tail(lines))

extractEventFromText(text) ==
    LET titled == SelectSeq(text, LAMBDA l : GlyphAt(l) > 0 /\ GlyphAt(l) < Len(l))
        marks  == {i \in 1..Len(text) :
                     /\ text[i] # <<>>
                     /\ text[i][Len(text[i])] \in {"Timeline:", "*Timeline:*"}
                     /\ i < Len(text)}
        first  == CHOOSE i \in marks : \A j \in marks : i <= j
    IN  OrNull(
          [NullPlan EXCEPT
             !.isNull = FALSE,
             !.hasTitle = titled # <<>>,
             !.title = IF titled # <<>>
                       THEN SubSeq(titled[1], GlyphAt(titled[1]) + 1, Len(titled[1]))
                       ELSE <<>>,
             !.hasTimeline = marks # {},
             !.timeline = IF marks # {}
                          THEN SelectSeq(UntilStar(SubSeq(text, first + 1, Len(text))),
                                         IsNumbered)
                          ELSE <<>>])

\* a header block whose text has the glyph, 'Party' or 'Event'
hasEventHeader(blocks) ==
    \E i \in 1..Len(blocks) :
        /\ blocks[i].type = "header"
        /\ \/ LinesInclude(blocks[i].text, Glyph)
           \/ LinesInclude(blocks[i].text, "Party")
           \/ LinesInclude(blocks[i].text, "Event")

\* message.text has 'Event Plan:', the glyph or 'Timeline:'
TextLooksLikePlan(text) ==
    /\ text # <<>>
    /\ \/ \E l \in 1..Len(text) : \E i \in 1..(Len(text[l]) - 1) :
              text[l][i] = "Event" /\ text[l][i + 1] = "Plan:"
       \/ LinesInclude(text, Glyph)
       \/ LinesInclude(text, "Timeline:")

RECURSIVE findRecentEventPlan(_)
\* the decode of the first message that looks like a plan, null when none does
findRecentEventPlan(messages) ==
    IF messages = <<>> THEN NullPlan
    ELSE LET m == Head(messages)
         IN  IF m.hasBlocks /\ hasEventHeader(m.blocks)
             THEN extractEventFromBlocks(m.blocks)
             ELSE IF TextLooksLikePlan(m.text)
             THEN extractEventFromText(m.text)
             ELSE findRecentEventPlan(Tail(messages))

-----------------------------------------------------------------------------
(* Responses *)

\* A Response: the status, the text body (webhook) and the JSON body
\* (approval and chat endpoints); success is "true", "false" or "absent";
\* response and needsApproval are the keys of the chat endpoint's body.
Response(status, body, success, message, error, hasPlan, eventPlan) ==
    [status |-> status, body |-> body, success |-> success, message |-> message,
     error |-> error, hasPlan |-> hasPlan, eventPlan |-> eventPlan,
     response |-> <<>>, needsApproval |-> FALSE]

NoResponse == Response(0, "", "absent", "", <<>>, FALSE, NoPlan)

TextResponse(status, body) == Response(status, body, "absent", "", <<>>, FALSE, NoPlan)

NoRequest == [kind |-> "none"]

NoPrompt == [system |-> "", title |-> <<>>, timeline |-> <<>>, user |-> <<>>, note |-> FALSE]

NoOutput == [kind |-> "", ev |-> ""]

\* bodyRead: request.text() returned; isValid: "unset" until
\* verifySlackSignature returns, then "true" or "false"; currentTime: the
\* clock it read
\* no result yet
NoResult == [ok |-> FALSE, error |-> ""]

NoHistoryResponse == [status |-> 0, ok |-> FALSE, throws |-> FALSE, messages |-> <<>>]

\* result: what postEventPlan returned; historyResponse: what
\* conversations.history answered; recentMessages,
\* recentEventPlan: the history handleSlackMention fetched and the plan it
\* recovered from it
NoLocals ==
    [bodyRead |-> FALSE, isValid |-> "unset", currentTime |-> 0, cleanText |-> <<>>,
     prompt |-> NoPrompt, aiOut |-> NoOutput, error |-> "",
     historyResponse |-> NoHistoryResponse, result |-> NoResult,
     recentMessages |-> <<>>, recentEventPlan |-> NullPlan]

\* What a request owns while it is handled: its position, request, response,
\* call logs, plan object and locals
Context(p, h, r, rs, pd, ai, hist, ps, pl, l) ==
    [pc |-> p, handler |-> h, req |-> r, resp |-> rs, parsed |-> pd, aiCalls |-> ai,
     histCalls |-> hist, posts |-> ps, plan |-> pl, loc |-> l]

\* no request
NoContext == Context("idle", "none", NoRequest, NoResponse, FALSE, 0, 0, <<>>, NoPlan, NoLocals)

-----------------------------------------------------------------------------
(* handleEventApproval (handlers/events.ts) *)

\* request.json() may fail (jsonOk); eventPlan may be missing (hasPlan);
\* slackChannelId "" is a missing or empty channel; approved missing is false
ApprovalRequests ==
    [kind : {"approval"}, jsonOk : {TRUE}, hasPlan : {TRUE}, eventPlan : Plans,
     slackChannelId : {"", "C1"}, approved : BOOLEAN]
    \cup
    [kind : {"approval"}, jsonOk : BOOLEAN, hasPlan : {FALSE}, eventPlan : {NoPlan},
     slackChannelId : {"", "C1"}, approved : BOOLEAN]

\* the approved flag is not looked at
DiscardedNever(request) == FALSE

\* if (!approved)
Discarded(request) == ~request.approved

\* the plan is marked sent before the delivery is known to have succeeded
ApproveAsSent(eventPlan, t) == [eventPlan EXCEPT !.status = "sent_to_slack", !.updatedAt = t]

\* eventPlan.status = 'approved'; eventPlan.updatedAt = new Date().toISOString()
Approve(eventPlan, t) == [eventPlan EXCEPT !.status = "approved", !.updatedAt = t]

\* the status is set and updatedAt is left as it was
MarkSentStale(eventPlan, t) == [eventPlan EXCEPT !.status = "sent_to_slack"]

\* eventPlan.status = 'sent_to_slack'; eventPlan.updatedAt = new Date().toISOString()
MarkSent(eventPlan, t) == [eventPlan EXCEPT !.status = "sent_to_slack", !.updatedAt = t]

\* a plan the other request has already sent is not sent again
WantsSlackOnce(request, e) ==
    /\ request.slackChannelId # "" /\ e.token # ""
    /\ ~(waiting.req = request /\ waiting.posts # <<>>)

\* the bot token is not looked at
WantsSlackNoToken(request, e) == request.slackChannelId # ""

\* if (slackChannelId && env.SLACK_BOT_TOKEN)
WantsSlack(request, e) == request.slackChannelId # "" /\ e.token # ""

ApprovalFailure == Response(500, "", "absent", "", <<"Failed to process event approval">>, FALSE, NoPlan)

AcceptApproval(r) ==
    /\ req' = r
    /\ handler' = "approval"
    /\ pc' = "ap_parse"
    /\ UNCHANGED <<waiting, env, now, resp, parsed, aiCalls, histCalls, posts, plan, loc>>

ReceiveApproval ==
    /\ pc = "idle"
    /\ \E r \in ApprovalRequests : AcceptApproval(r)

\* From request.json() to the first network call or the response
ApprovalParse ==
    /\ pc = "ap_parse"
    /\ IF ~req.jsonOk
       THEN /\ resp' = ApprovalFailure
            /\ pc' = "done"
            /\ UNCHANGED <<plan, posts>>
       ELSE IF Discarded(req)
       THEN /\ resp' = Response(200, "", "true", "Event plan discarded", <<>>, FALSE, NoPlan)
            /\ plan' = req.eventPlan
            /\ pc' = "done"
            /\ UNCHANGED posts
       ELSE IF ~req.hasPlan
       THEN \* eventPlan is undefined: the assignment throws a TypeError
            /\ resp' = ApprovalFailure
            /\ pc' = "done"
            /\ UNCHANGED <<plan, posts>>
       ELSE LET approvedPlan == Approve(req.eventPlan, now)
                withChannel  == [approvedPlan EXCEPT !.slackChannelId = req.slackChannelId]
                step         == postEventPlan(withChannel)
            IN  IF ~WantsSlack(req, env)
                THEN /\ plan' = approvedPlan
                     /\ resp' = Response(200, "", "true", "Event plan approved!", <<>>,
                                          TRUE, approvedPlan)
                     /\ pc' = "done"
                     /\ UNCHANGED posts
                ELSE IF step = "throws"
                THEN \* the TypeError of formatEventMessage reaches the catch
                     /\ plan' = withChannel
                     /\ resp' = ApprovalFailure
                     /\ pc' = "done"
                     /\ UNCHANGED posts
                ELSE IF step = "no_channel"
                THEN /\ plan' = withChannel
                     /\ resp' = Response(400, "", "false", "",
                                          <<"Failed to post to Slack: ", NoChannelResult.error>>,
                                          TRUE, withChannel)
                     /\ pc' = "done"
                     /\ UNCHANGED posts
                ELSE /\ plan' = withChannel
                     /\ posts' = Append(posts,
                            PostRecord("rich", formatEventMessage(withChannel, now), env.token))
                     /\ pc' = "ap_post"
                     /\ UNCHANGED resp
    /\ UNCHANGED <<waiting, env, now, handler, req, parsed, aiCalls, histCalls, loc>>

\* chat.postMessage returns: the rest of handleEventApproval
ApprovalPosted ==
    /\ pc = "ap_post"
    /\ \E outcome \in SlackOutcomes :
         LET result == postMessage(outcome)
         IN  /\ posts' = Resolve(posts, result)
             /\ IF result.ok
                THEN /\ plan' = MarkSent(plan, now)
                     /\ resp' = Response(200, "", "true",
                                          "Event plan approved and sent to Slack!", <<>>,
                                          TRUE, MarkSent(plan, now))
                ELSE /\ plan' = plan
                     /\ resp' = Response(400, "", "false", "",
                                          <<"Failed to post to Slack: ", result.error>>,
                                          TRUE, plan)
    /\ pc' = "done"
    /\ UNCHANGED <<waiting, env, now, handler, req, parsed, aiCalls, histCalls, loc>>

-----------------------------------------------------------------------------
(* The model and the platform, as handleSlackWebhook sees them *)

\* The event objects the model may put in its JSON: complete, without a
\* guests list, or complete and with keys of its own for id, status,
\* slackChannelId, createdAt and updatedAt ("" and 0: the key is absent)
ModelEventNames == {"full", "noguests", "ownkeys"}

ModelEvent(name) ==
    [id |-> IF name = "ownkeys" THEN "model-id" ELSE "",
     title |-> <<"Team", "Party">>, date |-> "2025-06-01",
     hasGuests |-> name # "noguests", guests |-> IF name # "noguests" THEN <<"ann">> ELSE <<>>,
     timeline |-> <<"book venue", "send invites">>, hasBudget |-> TRUE, budget |-> 1500,
     venue |-> "Hall", description |-> "",
     status |-> IF name = "ownkeys" THEN "sent_to_slack" ELSE "",
     slackChannelId |-> IF name = "ownkeys" THEN "C7" ELSE "",
     createdAt |-> IF name = "ownkeys" THEN StartTime - 500 ELSE 0,
     updatedAt |-> IF name = "ownkeys" THEN StartTime - 500 ELSE 0]

\* What env.AI.run returns in response.response: prose, the plan JSON, JSON
\* that is no plan, an object, or JSON in a code fence: the plan or other
\* JSON in a ``` or ```json fence, the plan in such a fence with prose around
\* it, the plan in a fence with another language tag
AiOutputs ==
    [kind : {"prose", "json_other", "fenced_other"}, ev : {""}]
    \cup [kind : {"json_plan", "fenced_plan", "object_plan", "prose_fenced_plan",
                  "tagged_plan"},
          ev : ModelEventNames]

\* messages of the errors env.AI.run may throw
AiErrors == {"inference failed", "gateway timeout"}

\* new Error('AI request timeout')
TimeoutError == "AI request timeout"

\* the text of a model output, as one line
OutputText(out) == << <<out.kind, out.ev>> >>

\* handleSlackMention: typeof aiResponse === 'object' or JSON.parse(aiResponse),
\* then parsedResponse.action === 'create_event' && parsedResponse.event
MentionDecodes(out) == out.kind \in {"json_plan", "object_plan"}

\* crypto.randomUUID()
FreshId == "uuid-1"

\* the channel the model names wins over the channel of the mention
MentionPlanOwnChannel(ev, channel, t) ==
    [id |-> IF ev.id # "" THEN ev.id ELSE FreshId,
     title |-> ev.title, date |-> ev.date, hasGuests |-> ev.hasGuests,
     guests |-> ev.guests, timeline |-> ev.timeline, hasBudget |-> ev.hasBudget,
     budget |-> ev.budget, venue |-> ev.venue, description |-> ev.description,
     status |-> "draft",
     slackChannelId |-> IF ev.slackChannelId # "" THEN ev.slackChannelId ELSE channel,
     createdAt |-> t, updatedAt |-> t]

\* { id, ...parsedResponse.event, status: 'draft', slackChannelId: channel,
\*   createdAt, updatedAt }: a key of the event replaces the id before it,
\* the keys after the spread replace those of the event
MentionPlan(ev, channel, t) ==
    [id |-> IF ev.id # "" THEN ev.id ELSE FreshId,
     title |-> ev.title, date |-> ev.date, hasGuests |-> ev.hasGuests,
     guests |-> ev.guests, timeline |-> ev.timeline, hasBudget |-> ev.hasBudget,
     budget |-> ev.budget, venue |-> ev.venue, description |-> ev.description,
     status |-> "draft", slackChannelId |-> channel, createdAt |-> t, updatedAt |-> t]

\* a plan message as it comes back in the history
HistoryPlan ==
    [MentionPlan(ModelEvent("full"), "C1", StartTime - 10) EXCEPT !.status = "sent_to_slack"]

PlanMessage ==
    LET m == formatEventMessage(HistoryPlan, StartTime - 10)
    IN  [hasBlocks |-> TRUE, blocks |-> m.blocks, text |-> m.text]

ChatMessage == [hasBlocks |-> FALSE, blocks |-> <<>>, text |-> << <<"hello", "team">> >>]

\* a plan message whose timeline has more entries than the focused prompt
\* takes
LongPlanMessage ==
    LET m == formatEventMessage(
                 [HistoryPlan EXCEPT !.timeline =
                     <<"t1", "t2", "t3", "t4", "t5", "t6", "t7", "t8">>],
                 StartTime - 10)
    IN  [hasBlocks |-> TRUE, blocks |-> m.blocks, text |-> m.text]

\* conversations.history answers: the HTTP status, whether fetch or
\* response.json() throws, and the body's ok and messages (newest first)
HistoryResponses ==
    [status : {200}, ok : {TRUE}, throws : {FALSE},
     messages : {<<>>, <<ChatMessage>>, <<PlanMessage>>, <<ChatMessage, PlanMessage>>,
                 <<LongPlanMessage>>}]
    \cup [status : {200, 500}, ok : {FALSE}, throws : BOOLEAN, messages : {<<>>}]
    \cup [status : {200}, ok : {FALSE}, throws : {FALSE}, messages : {<<PlanMessage>>}]
    \cup [status : {500}, ok : {TRUE}, throws : {FALSE}, messages : {<<PlanMessage>>}]

\* getRecentChannelMessages: [] when the call throws or data.ok is not true;
\* response.status is logged and not tested
getRecentChannelMessages(answer) ==
    IF answer.throws \/ ~answer.ok THEN <<>> ELSE answer.messages

eventKeywords == {"plan", "event", "party", "meeting", "celebration"}

\* the text is not lowercased before the search
hasEventKeywordCaseSensitive(text) == \E keyword \in eventKeywords : Includes(text, keyword)

\* eventKeywords.some(keyword => text.toLowerCase().includes(keyword))
hasEventKeyword(text) == \E keyword \in eventKeywords : Includes(ToLower(text), keyword)

modificationKeywords == {"swap", "change", "modify", "update", "move", "history"}

isEventModification(cleanText) ==
    \E keyword \in modificationKeywords : Includes(ToLower(cleanText), keyword)

\* text.replace(/<@[A-Z0-9]+>/g, '').trim()
CleanText(text) == SelectSeq(text, LAMBDA w : w # "<@U1>")

GeneralPrompt(user, note) ==
    [system |-> "SYSTEM_PROMPT", title |-> <<>>, timeline |-> <<>>, user |-> user,
     note |-> note]

\* the timeline is not sliced
FocusedPromptWhole(recent, user) ==
    LET n == Len(recent.timeline)
    IN  [system |-> "focused",
         title |-> IF recent.hasTitle THEN recent.title ELSE <<"undefined">>,
         timeline |-> IF n = 0 THEN << <<"No timeline available">> >>
                      ELSE [i \in 1..n |-> <<ToString(i), ".">> \o StripNumbering(recent.timeline[i])],
         user |-> user, note |-> FALSE]

\* the focused context: the title and the first 7 timeline entries, renumbered
FocusedPrompt(recent, user) ==
    LET n == IF Len(recent.timeline) < TimelineSlice THEN Len(recent.timeline)
             ELSE TimelineSlice
    IN  [system |-> "focused",
         title |-> IF recent.hasTitle THEN recent.title ELSE <<"undefined">>,
         timeline |-> IF n = 0 THEN << <<"No timeline available">> >>
                      ELSE [i \in 1..n |-> <<ToString(i), ".">> \o StripNumbering(recent.timeline[i])],
         user |-> user, note |-> FALSE]

PlainMessage(channel, text) == [channel |-> channel, text |-> text, blocks |-> <<>>]

\* the fallbackMessage of handleSlackMention's catch
Apology(errorMessage) ==
    IF WordIncludes(errorMessage, "timeout")
    THEN << <<"I'm experiencing some technical difficulties right now. Please try your request again in a moment.">> >>
    ELSE << <<"Sorry, I encountered an error processing your request:", errorMessage,
              ". Please try again!">> >>

-----------------------------------------------------------------------------
(* handleSlackWebhook (handlers/slack.ts) *)

\* a failure inside the handlers reaches the outer catch
Error500 == TextResponse(500, "Error")

\* return new Response('OK')
Ok200 == TextResponse(200, "OK")

WebhookRequests ==
    { [kind |-> "webhook", timestamp |-> ts, signature |-> sig, body |-> b] :
        ts \in TimestampHeaders, b \in Bodies, sig \in {EmptySignature} }
    \cup
    UNION { { [kind |-> "webhook", timestamp |-> ts, signature |-> sig, body |-> b] :
                sig \in SignatureHeaders(ts, b) } :
            ts \in TimestampHeaders, b \in Bodies }

\* The request arrives and request.text() is awaited; when reading the body
\* throws, the outer catch answers 500
AcceptWebhook(r) ==
    /\ req' = r
    /\ handler' = "webhook"
    /\ \/ /\ pc' = "wh_verify"
          /\ loc' = [loc EXCEPT !.bodyRead = TRUE]
          /\ UNCHANGED resp
       \/ /\ pc' = "done"
          /\ resp' = TextResponse(500, "Error")
          /\ UNCHANGED loc
    /\ UNCHANGED <<waiting, env, now, parsed, aiCalls, histCalls, posts, plan>>

ReceiveWebhook ==
    /\ pc = "idle"
    /\ \E r \in WebhookRequests : AcceptWebhook(r)

\* the early return is missing
RejectedNever(isValid) == FALSE

\* if (!isValid) return new Response('Invalid signature', { status: 401 })
Rejected(isValid) == isValid = "false"

\* if (env.SLACK_SIGNING_SECRET) { isValid = await verifySlackSignature(...) }
WebhookVerify ==
    /\ pc = "wh_verify"
    /\ LET isValid ==
               IF env.secret = "" THEN "unset"
               ELSE IF verifySlackSignature(env.secret, req.timestamp, req.body,
                                            req.signature, now)
               THEN "true" ELSE "false"
       IN  /\ loc' = [loc EXCEPT !.isValid = isValid,
                                 !.currentTime = IF env.secret = "" THEN 0 ELSE now]
           /\ IF Rejected(isValid)
              THEN /\ pc' = "done"
                   /\ resp' = TextResponse(401, "Invalid signature")
              ELSE /\ pc' = "wh_parse"
                   /\ UNCHANGED resp
    /\ UNCHANGED <<waiting, env, now, handler, req, parsed, aiCalls, histCalls, posts, plan>>

\* the bot_id guard is missing
RoutesBotMessages(event) == event.type = "message" /\ event.textKind # "absent"

\* event.type === 'message' && !event.bot_id && event.text
RoutesToMessage(event) ==
    event.type = "message" /\ event.bot_id = "" /\ event.textKind # "absent"

\* event.type === 'app_mention' && event.text
RoutesToMention(event) == event.type = "app_mention" /\ event.textKind # "absent"

\* the handshake is not recognised
ChallengeIgnored(payload) == FALSE

\* if (payload.type === 'url_verification')
IsChallenge(payload) == payload.type = "url_verification"

\* where the synchronous part of the inner try block ends for a payload:
\* "challenge", "message_ai", "mention_history", "mention_ai" or "ok"
\* (nothing to do, or a TypeError that the inner catch absorbs)
Route(payload, e) ==
    IF payload.kind # "object" THEN "ok"
    ELSE IF IsChallenge(payload) THEN "challenge"
    ELSE IF ~(payload.type = "event_callback" /\ payload.hasEvent) THEN "ok"
    ELSE LET event == payload.event
         IN  IF RoutesToMessage(event)
             THEN IF event.textKind = "string" /\ hasEventKeyword(event.text)
                  THEN "message_ai" ELSE "ok"
             ELSE IF RoutesToMention(event)
             THEN IF event.textKind # "string" THEN "ok"
                  ELSE IF isEventModification(CleanText(event.text)) /\ e.token # ""
                  THEN "mention_history" ELSE "mention_ai"
             ELSE "ok"

\* JSON.parse(body) and the dispatch on the payload, up to the first call
WebhookDispatch ==
    /\ pc = "wh_parse"
    /\ parsed' = TRUE
    /\ LET payload == JsonParse(req.body)
           route   == Route(payload, env)
           event   == payload.event
       IN  CASE route = "challenge" ->
                  /\ resp' = TextResponse(200, payload.challenge)
                  /\ pc' = "done"
                  /\ UNCHANGED <<aiCalls, histCalls, loc>>
             [] route = "message_ai" ->
                  /\ aiCalls' = aiCalls + 1
                  /\ loc' = [loc EXCEPT !.prompt = GeneralPrompt(event.text, FALSE)]
                  /\ pc' = "msg_ai"
                  /\ UNCHANGED <<resp, histCalls>>
             [] route = "mention_history" ->
                  /\ histCalls' = histCalls + 1
                  /\ loc' = [loc EXCEPT !.cleanText = CleanText(event.text)]
                  /\ pc' = "mn_hist"
                  /\ UNCHANGED <<resp, aiCalls>>
             [] route = "mention_ai" ->
                  /\ aiCalls' = aiCalls + 1
                  /\ loc' = [loc EXCEPT !.cleanText = CleanText(event.text),
                                        !.prompt = GeneralPrompt(CleanText(event.text), FALSE)]
                  /\ pc' = "mn_ai"
                  /\ UNCHANGED <<resp, histCalls>>
             [] OTHER ->
                  /\ resp' = Ok200
                  /\ pc' = "done"
                  /\ UNCHANGED <<aiCalls, histCalls, loc>>
    /\ UNCHANGED <<waiting, env, now, handler, req, posts, plan>>

\* handleSlackMessage: env.AI.run returns or throws
MessageAiReturned ==
    /\ pc = "msg_ai"
    /\ \/ \E out \in AiOutputs :
            /\ loc' = [loc EXCEPT !.aiOut = out]
            /\ posts' = Append(posts,
                   PostRecord("plain",
                              PlainMessage(JsonParse(req.body).event.channel, OutputText(out)),
                              env.token))
            /\ pc' = "msg_post"
            /\ UNCHANGED resp
       \/ \E e \in AiErrors :
            /\ loc' = [loc EXCEPT !.error = e]
            /\ resp' = Ok200
            /\ pc' = "done"
            /\ UNCHANGED posts
    /\ UNCHANGED <<waiting, env, now, handler, req, parsed, aiCalls, histCalls, plan>>

\* handleSlackMessage: chat.postMessage returns; the result is not looked at
MessagePosted ==
    /\ pc = "msg_post"
    /\ \E outcome \in SlackOutcomes : posts' = Resolve(posts, postMessage(outcome))
    /\ resp' = Ok200
    /\ pc' = "done"
    /\ UNCHANGED <<waiting, env, now, handler, req, parsed, aiCalls, histCalls, plan, loc>>

\* handleSlackMention: the history call returns; the prompt is built and
\* env.AI.run is called
MentionHistoryReturned ==
    /\ pc = "mn_hist"
    /\ \E answer \in HistoryResponses :
         LET recentMessages == getRecentChannelMessages(answer)
             recent == findRecentEventPlan(recentMessages)
         IN  loc' = [loc EXCEPT !.historyResponse = answer,
                                !.recentMessages = recentMessages,
                                !.recentEventPlan = recent,
                                !.prompt =
                        IF ~recent.isNull THEN FocusedPrompt(recent, loc.cleanText)
                        ELSE GeneralPrompt(loc.cleanText, TRUE)]
    /\ aiCalls' = aiCalls + 1
    /\ pc' = "mn_ai"
    /\ UNCHANGED <<waiting, env, now, handler, req, resp, parsed, histCalls, posts, plan>>

\* handleSlackMention: Promise.race([aiCall, timeoutPromise]) settles; the
\* output is decoded and the plan, the plain reply or the apology is sent
MentionAiReturned ==
    /\ pc = "mn_ai"
    /\ LET channel == JsonParse(req.body).event.channel
       IN  \/ \E out \in AiOutputs :
                LET eventPlan == MentionPlan(ModelEvent(out.ev), channel, now)
                    step == IF MentionDecodes(out) THEN postEventPlan(eventPlan) ELSE "plain"
                IN  /\ loc' = [loc EXCEPT !.aiOut = out]
                    /\ CASE step = "send" ->
                              /\ plan' = eventPlan
                              /\ posts' = Append(posts,
                                     PostRecord("rich", formatEventMessage(eventPlan, now),
                                                env.token))
                              /\ pc' = "mn_post"
                              /\ UNCHANGED resp
                         [] step = "no_channel" ->
                              /\ plan' = eventPlan
                              /\ resp' = Ok200
                              /\ pc' = "done"
                              /\ UNCHANGED posts
                         [] OTHER ->
                              \* no plan, or formatEventMessage threw inside the
                              \* inner try: the output goes out as a plain message
                              /\ plan' = IF MentionDecodes(out) THEN eventPlan ELSE plan
                              /\ posts' = Append(posts,
                                     PostRecord("plain", PlainMessage(channel, OutputText(out)),
                                                env.token))
                              /\ pc' = "mn_post"
                              /\ UNCHANGED resp
           \/ \E e \in AiErrors \cup {TimeoutError} :
                /\ loc' = [loc EXCEPT !.error = e]
                /\ posts' = Append(posts,
                       PostRecord("apology", PlainMessage(channel, Apology(e)), env.token))
                /\ pc' = "mn_apology"
                /\ UNCHANGED <<resp, plan>>
    /\ UNCHANGED <<waiting, env, now, handler, req, parsed, aiCalls, histCalls>>

\* a failed delivery is taken for an exception and the apology follows
MentionPostedThenApology ==
    /\ pc = "mn_post"
    /\ \E outcome \in SlackOutcomes :
         LET result == postMessage(outcome)
         IN  IF result.ok
             THEN /\ posts' = Resolve(posts, result)
                  /\ resp' = Ok200
                  /\ pc' = "done"
             ELSE /\ posts' = Append(Resolve(posts, result),
                                     PostRecord("apology",
                                         PlainMessage(JsonParse(req.body).event.channel,
                                                      Apology(result.error)),
                                         env.token))
                  /\ pc' = "mn_apology"
                  /\ UNCHANGED resp
    /\ UNCHANGED <<waiting, env, now, handler, req, parsed, aiCalls, histCalls, plan, loc>>

\* handleSlackMention: the plan or the plain reply was posted; the result is
\* logged and not looked at
MentionPosted ==
    /\ pc = "mn_post"
    /\ \E outcome \in SlackOutcomes : posts' = Resolve(posts, postMessage(outcome))
    /\ resp' = Ok200
    /\ pc' = "done"
    /\ UNCHANGED <<waiting, env, now, handler, req, parsed, aiCalls, histCalls, plan, loc>>

\* handleSlackMention: the apology was posted
MentionApologyPosted ==
    /\ pc = "mn_apology"
    /\ \E outcome \in SlackOutcomes : posts' = Resolve(posts, postMessage(outcome))
    /\ resp' = Ok200
    /\ pc' = "done"
    /\ UNCHANGED <<waiting, env, now, handler, req, parsed, aiCalls, histCalls, plan, loc>>

-----------------------------------------------------------------------------
(* handleChatRequest (handlers/chat.ts) *)

\* request.json() may fail (jsonOk); messages is missing (the default []),
\* an array, or something that has no some(); hasSystem: a message has the
\* role system
ChatRequests ==
    [kind : {"chat"}, jsonOk : {TRUE}, messages : {"array"}, hasSystem : BOOLEAN,
     user : {<<"Plan", "a", "party">>}]
    \cup
    [kind : {"chat"}, jsonOk : BOOLEAN, messages : {"absent", "notarray"},
     hasSystem : {FALSE}, user : {<<>>}]

\* responseText.match(/```(?:json)?\s*(\{[\s\S]*?\})\s*```/)[1]: the text
\* captured from the first ``` or ```json fence that holds an object, "" when
\* the pattern does not match
FenceContents(out) ==
    CASE out.kind \in {"fenced_plan", "prose_fenced_plan"} -> "json_plan"
      [] out.kind = "fenced_other" -> "json_other"
      [] OTHER -> ""

\* JSON.parse(jsonText): the plan object, another object, or a SyntaxError
ParseText(jsonText) ==
    CASE jsonText = "json_plan" -> "plan"
      [] jsonText = "json_other" -> "other"
      [] OTHER -> "SyntaxError"

\* the fence is not looked for: the whole output is parsed
ChatDecodesWholeOnly(out) ==
    /\ out.kind # "object_plan"
    /\ ParseText(out.kind) = "plan"

\* the decoder of handleChatRequest: the fenced contents when the pattern
\* matches, else the whole text, parsed; then
\* parsedResponse.action === 'create_event' && parsedResponse.event.
\* An output that is no string has no match(): the TypeError is caught.
ChatDecodes(out) ==
    /\ out.kind # "object_plan"
    /\ LET codeBlockMatch == FenceContents(out)
           jsonText == IF codeBlockMatch # "" THEN codeBlockMatch ELSE out.kind
       IN  ParseText(jsonText) = "plan"

\* parsedResponse.response: the reply inside the plan JSON
ParsedReply(out) == << <<"reply", out.ev>> >>

\* the plan is born approved
ChatPlanApproved(ev, t) == [MentionPlan(ev, ev.slackChannelId, t) EXCEPT !.status = "approved"]

\* { id, ...parsedResponse.event, status: 'draft', createdAt, updatedAt }:
\* no slackChannelId key follows the spread, the event's own one stays
ChatPlan(ev, t) == MentionPlan(ev, ev.slackChannelId, t)

\* the parsed reply is returned also when no plan was decoded
ChatReplyParsed(out) == ParsedReply(out)

\* { response: response.response }
ChatReply(out) == OutputText(out)

\* the JSON body of the chat endpoint, status 200
ChatResponse(response, hasPlan, eventPlan) ==
    [Response(200, "", "absent", "", <<>>, hasPlan, eventPlan)
        EXCEPT !.response = response, !.needsApproval = hasPlan]

ChatFailure == Response(500, "", "absent", "", <<"Failed to process request">>, FALSE, NoPlan)

ReceiveChat ==
    /\ pc = "idle"
    /\ \E r \in ChatRequests : req' = r
    /\ handler' = "chat"
    /\ pc' = "ch_parse"
    /\ UNCHANGED <<waiting, env, now, resp, parsed, aiCalls, histCalls, posts, plan, loc>>

\* request.json(), the system prompt, and the call of env.AI.run
ChatParse ==
    /\ pc = "ch_parse"
    /\ IF ~req.jsonOk \/ req.messages = "notarray"
       THEN /\ resp' = ChatFailure
            /\ pc' = "done"
            /\ UNCHANGED <<aiCalls, loc>>
       ELSE /\ aiCalls' = aiCalls + 1
            /\ loc' = [loc EXCEPT !.prompt =
                         [system |-> IF req.hasSystem THEN "client" ELSE "SYSTEM_PROMPT",
                          title |-> <<>>, timeline |-> <<>>, user |-> req.user,
                          note |-> FALSE]]
            /\ pc' = "ch_ai"
            /\ UNCHANGED resp
    /\ UNCHANGED <<waiting, env, now, handler, req, parsed, histCalls, posts, plan>>

\* env.AI.run returns or throws: the output is decoded and the response built
ChatAiReturned ==
    /\ pc = "ch_ai"
    /\ \/ \E out \in AiOutputs :
            LET eventPlan == ChatPlan(ModelEvent(out.ev), now)
            IN  /\ loc' = [loc EXCEPT !.aiOut = out]
                /\ IF ChatDecodes(out)
                   THEN /\ plan' = eventPlan
                        /\ resp' = ChatResponse(ParsedReply(out), TRUE, eventPlan)
                   ELSE /\ plan' = plan
                        /\ resp' = ChatResponse(ChatReply(out), FALSE, NoPlan)
       \/ \E e \in AiErrors :
            /\ loc' = [loc EXCEPT !.error = e]
            /\ resp' = ChatFailure
            /\ UNCHANGED plan
    /\ pc' = "done"
    /\ UNCHANGED <<waiting, env, now, handler, req, parsed, aiCalls, histCalls, posts>>

-----------------------------------------------------------------------------
(* The worker *)

\* the awaits during which the clock may advance
Awaiting == {"wh_verify", "ap_parse", "ap_post", "msg_ai", "msg_post", "mn_hist", "mn_ai",
             "mn_post", "mn_apology", "ch_parse", "ch_ai"}

Tick ==
    /\ pc \in Awaiting
    /\ now < StartTime + MaxTicks
    /\ now' = now + 1
    /\ UNCHANGED <<waiting, env, pc, handler, req, resp, parsed, aiCalls, histCalls, posts, plan, loc>>

\* The response has been returned: nothing of the request is kept
Finish ==
    /\ pc = "done"
    /\ pc' = "idle"
    /\ handler' = "none"
    /\ req' = NoRequest
    /\ resp' = NoResponse
    /\ parsed' = FALSE
    /\ aiCalls' = 0
    /\ histCalls' = 0
    /\ posts' = <<>>
    /\ plan' = NoPlan
    /\ loc' = NoLocals
    /\ UNCHANGED <<waiting, env, now>>

Envs == [secret : {"", "s1"}, token : {"", "xoxb-1"}]

Init ==
    /\ env \in Envs
    /\ now = StartTime
    /\ pc = "idle"
    /\ handler = "none"
    /\ req = NoRequest
    /\ resp = NoResponse
    /\ parsed = FALSE
    /\ aiCalls = 0
    /\ histCalls = 0
    /\ posts = <<>>
    /\ plan = NoPlan
    /\ loc = NoLocals
    /\ waiting = NoContext

Next ==
    \/ ReceiveWebhook
    \/ WebhookVerify
    \/ WebhookDispatch
    \/ MessageAiReturned
    \/ MessagePosted
    \/ MentionHistoryReturned
    \/ MentionAiReturned
    \/ MentionPosted
    \/ MentionApologyPosted
    \/ ReceiveApproval
    \/ ApprovalParse
    \/ ApprovalPosted
    \/ ReceiveChat
    \/ ChatParse
    \/ ChatAiReturned
    \/ Tick
    \/ Finish

Spec == Init /\ [][Next]_vars

\* The steps that are bound to happen once a handler waits for them: the
\* synchronous steps, the Slack HTTP calls (taken to return), and the model
\* call of handleSlackMention, which Promise.race ends after 15 s at the
\* latest.  The model calls of handleSlackMessage and handleChatRequest are
\* awaited bare: nothing bounds them.
Progress ==
    \/ WebhookVerify
    \/ WebhookDispatch
    \/ MessagePosted
    \/ MentionHistoryReturned
    \/ MentionAiReturned
    \/ MentionPosted
    \/ MentionApologyPosted
    \/ ApprovalParse
    \/ ApprovalPosted
    \/ ChatParse

\* the worker with those steps scheduled fairly
LiveSpec == Init /\ [][Next]_vars /\ WF_vars(Progress)

-----------------------------------------------------------------------------
(* The channel as the record of a plan: postEventPlan publishes a plan and  *)
(* a later mention recovers it from conversations.history                   *)

\* the plans published: with or without guests, description, timeline and
\* venue, and with a title that has or has not one of the words the header
\* is recognised by
PublishedPlans ==
    [id : {"p1"},
     title : {<<"Team", "Party">>, <<"Board", "Offsite">>},
     date : {"2025-06-01"},
     hasGuests : {TRUE},
     guests : {<<>>, <<"ann", "bob">>},
     timeline : {<<>>, <<"book venue", "send invites">>},
     hasBudget : {TRUE},
     budget : {800, 1500},
     venue : {"", "Hall"},
     description : {"", "fun"},
     status : {"draft"},
     slackChannelId : {"", "C1"},
     createdAt : {StartTime},
     updatedAt : {StartTime}]
    \cup
    \* a plan object without guests: formatEventMessage throws on it
    [id : {"p1"},
     title : {<<"Team", "Party">>},
     date : {"2025-06-01"},
     hasGuests : {FALSE},
     guests : {<<>>},
     timeline : {<<>>},
     hasBudget : {TRUE},
     budget : {800},
     venue : {"Hall"},
     description : {""},
     status : {"draft"},
     slackChannelId : {"C1"},
     createdAt : {StartTime},
     updatedAt : {StartTime}]

\* a posted message as conversations.history returns it
AsHistoryMessage(post) == [hasBlocks |-> TRUE, blocks |-> post.blocks, text |-> post.text]

\* a message of a person that mentions the timeline: no blocks, and nothing
\* that the text decoder extracts
MarkerMessage ==
    [hasBlocks |-> FALSE, blocks |-> <<>>, text |-> << <<"the", "Timeline:", "slipped">> >>]

\* data.messages: up to MaxWindow messages, newest first, of the published
\* message, talk, and an older plan
Windows(published) ==
    UNION { [1..n -> {published, ChatMessage, MarkerMessage, PlanMessage}] : n \in 0..MaxWindow }

HistoryInit ==
    /\ env = [secret |-> "", token |-> "xoxb-1"]
    /\ now = StartTime
    /\ pc = "hs_publish"
    /\ handler = "webhook"
    /\ req = NoRequest
    /\ resp = NoResponse
    /\ parsed = FALSE
    /\ aiCalls = 0
    /\ histCalls = 0
    /\ posts = <<>>
    /\ plan \in PublishedPlans
    /\ loc = NoLocals
    /\ waiting = NoContext

\* postEventPlan: the channel guard, formatEventMessage and chat.postMessage;
\* result is what it returns, error what it throws
PublishPlan ==
    /\ pc = "hs_publish"
    /\ LET step == postEventPlan(plan)
       IN  CASE step = "send" ->
                  \E outcome \in SlackOutcomes :
                     LET result == postMessage(outcome)
                     IN  /\ posts' = Resolve(Append(posts,
                                         PostRecord("rich", formatEventMessage(plan, now),
                                                    env.token)),
                                         result)
                         /\ loc' = [loc EXCEPT !.result = result]
                         /\ pc' = IF result.ok THEN "hs_recover" ELSE "hs_done"
             [] step = "no_channel" ->
                  /\ loc' = [loc EXCEPT !.result = NoChannelResult]
                  /\ pc' = "hs_done"
                  /\ UNCHANGED posts
             [] OTHER ->
                  /\ loc' = [loc EXCEPT !.error = "TypeError"]
                  /\ pc' = "hs_done"
                  /\ UNCHANGED posts
    /\ UNCHANGED <<waiting, env, now, handler, req, resp, parsed, aiCalls, histCalls, plan>>

\* getRecentChannelMessages and findRecentEventPlan, as handleSlackMention
\* calls them for a modification request
RecoverPlan ==
    /\ pc = "hs_recover"
    /\ histCalls' = histCalls + 1
    /\ \E messages \in Windows(AsHistoryMessage(posts[Len(posts)])) :
         loc' = [loc EXCEPT !.recentMessages = messages,
                            !.recentEventPlan = findRecentEventPlan(messages)]
    /\ pc' = "hs_done"
    /\ UNCHANGED <<waiting, env, now, handler, req, resp, parsed, aiCalls, posts, plan>>

HistoryNext ==
    \/ PublishPlan
    \/ RecoverPlan

HistorySpec == HistoryInit /\ [][HistoryNext]_vars

-----------------------------------------------------------------------------
(* Two requests in one isolate: while the handler of one is suspended at an  *)
(* await, the handler of the other runs.  Each invocation of fetch has its   *)
(* own request, locals, SlackService and plan object; env is read only.      *)

\* what the running request owns
Running == Context(pc, handler, req, resp, parsed, aiCalls, histCalls, posts, plan, loc)

\* unsigned deliveries of an app_mention and of an ambient message
PairWebhookRequests ==
    { r \in WebhookRequests :
        /\ r.timestamp = <<>> /\ r.signature = EmptySignature /\ r.body.ws = 0
        /\ r.body.doc.kind = "object" /\ r.body.doc.type = "event_callback"
        /\ r.body.doc.hasEvent
        /\ r.body.doc.event.bot_id = "" /\ r.body.doc.event.textKind = "string"
        /\ \/ /\ r.body.doc.event.type = "app_mention"
              /\ r.body.doc.event.text = <<"<@U1>", "plan", "an", "event">>
           \/ /\ r.body.doc.event.type = "message"
              /\ r.body.doc.event.text = <<"Party", "time">> }

\* the approval of the draft the chat endpoint returned, for channel C1
PairApprovalRequests ==
    { r \in ApprovalRequests :
        /\ r.jsonOk /\ r.hasPlan /\ r.approved /\ r.slackChannelId = "C1"
        /\ r.eventPlan.id = "uuid-1" }

PairInit ==
    /\ env = [secret |-> "", token |-> "xoxb-1"]
    /\ now = StartTime
    /\ pc = "idle"
    /\ handler = "none"
    /\ req = NoRequest
    /\ resp = NoResponse
    /\ parsed = FALSE
    /\ aiCalls = 0
    /\ histCalls = 0
    /\ posts = <<>>
    /\ plan = NoPlan
    /\ loc = NoLocals
    /\ waiting = NoContext

PairReceiveWebhook ==
    /\ pc = "idle"
    /\ \E r \in PairWebhookRequests : AcceptWebhook(r)

PairReceiveApproval ==
    /\ pc = "idle"
    /\ \E r \in PairApprovalRequests : AcceptApproval(r)

\* the locals are kept in module scope: the two handlers share them
YieldSharingLocals ==
    /\ pc \in Awaiting \cup {"idle", "done"}
    /\ waiting.pc # "done"
    /\ waiting' = [Running EXCEPT !.loc = NoLocals]
    /\ pc' = waiting.pc
    /\ handler' = waiting.handler
    /\ req' = waiting.req
    /\ resp' = waiting.resp
    /\ parsed' = waiting.parsed
    /\ aiCalls' = waiting.aiCalls
    /\ histCalls' = waiting.histCalls
    /\ posts' = waiting.posts
    /\ plan' = waiting.plan
    /\ UNCHANGED <<env, now, loc>>

\* The running handler is suspended at an await (or has not started, or has
\* returned) and the other request's handler goes on where it was suspended.
\* Everything a request owns goes with it; env and the clock belong to none.
Yield ==
    /\ pc \in Awaiting \cup {"idle", "done"}
    /\ waiting.pc # "done"
    /\ waiting' = Running
    /\ pc' = waiting.pc
    /\ handler' = waiting.handler
    /\ req' = waiting.req
    /\ resp' = waiting.resp
    /\ parsed' = waiting.parsed
    /\ aiCalls' = waiting.aiCalls
    /\ histCalls' = waiting.histCalls
    /\ posts' = waiting.posts
    /\ plan' = waiting.plan
    /\ loc' = waiting.loc
    /\ UNCHANGED <<env, now>>

PairNext ==
    \/ PairReceiveWebhook
    \/ PairReceiveApproval
    \/ WebhookVerify
    \/ WebhookDispatch
    \/ MessageAiReturned
    \/ MessagePosted
    \/ MentionAiReturned
    \/ MentionPosted
    \/ MentionApologyPosted
    \/ ApprovalParse
    \/ ApprovalPosted
    \/ Yield

PairSpec == PairInit /\ [][PairNext]_vars

-----------------------------------------------------------------------------
(* Properties *)

Payload == JsonParse(req.body)

\* the request made a model call, a history call or a Slack post
MadeCalls == aiCalls > 0 \/ histCalls > 0 \/ posts # <<>>

\* the payload content has been trusted or acted upon
Acted == parsed \/ MadeCalls

\* the signature gate let the request through
GatePassed == env.secret = "" \/ loc.isValid = "true"

\* a timestamp header that is a decimal number, and its value
Numeric(timestamp) == timestamp # <<>> /\ \A i \in 1..Len(timestamp) : timestamp[i] \in Digits

Within(currentTime, timestamp) == Abs(currentTime - DigitsValue(timestamp, 0)) <= MaxSkew

LastPost == posts[Len(posts)]

\* C1: in handleSlackWebhook the payload is trusted or acted upon (parsed,
\* challenge echoed, model called, history fetched, anything posted) only
\* when no secret is configured or verifySlackSignature returned true, and
\* then it is; when a secret is configured and verification fails the
\* response is 401 and the request makes no call at all.
C1_SignatureGate ==
    handler = "webhook" =>
        /\ Acted => GatePassed
        /\ (env.secret # "" /\ loc.isValid = "false") =>
               (pc = "done" /\ resp.status = 401 /\ ~Acted)
        /\ (pc = "done" /\ loc.bodyRead /\ GatePassed) => parsed

\* a signed-secret deployment refuses an app_mention that it would act upon
C1_Witness ==
    /\ handler = "webhook" /\ pc = "done"
    /\ env.secret # "" /\ loc.isValid = "false"
    /\ resp.status = 401
    /\ Route(Payload, env) \in {"mention_ai", "mention_history"}

\* C2: verifySlackSignature returns false for every request whose timestamp
\* differs from the current time by more than 300 seconds, also when the
\* supplied signature is the correct HMAC for that timestamp and body.
C2_StaleRejected ==
    (/\ handler = "webhook" /\ env.secret # "" /\ loc.isValid # "unset"
     /\ Numeric(req.timestamp)
     /\ ~Within(loc.currentTime, req.timestamp))
    => loc.isValid = "false"

\* a correctly signed request with a timestamp 301 s or more away is refused
C2_Witness ==
    /\ handler = "webhook" /\ env.secret # "" /\ loc.isValid = "false"
    /\ Numeric(req.timestamp)
    /\ ~Within(loc.currentTime, req.timestamp)
    /\ req.signature = SignatureOf(env.secret, req.timestamp, req.body)
    /\ resp.status = 401

\* C3: for a timestamp within 300 seconds of the current time,
\* verifySlackSignature returns true when the supplied signature is
\* "v0=" + hex(HMAC(secret, "v0:" + timestamp + ":" + body)) and false when
\* the supplied signature was computed over a body that differs.
C3_SignatureDecides ==
    (/\ handler = "webhook" /\ env.secret # "" /\ loc.isValid # "unset"
     /\ Numeric(req.timestamp)
     /\ Within(loc.currentTime, req.timestamp))
    => /\ req.signature = SignatureOf(env.secret, req.timestamp, req.body)
            => loc.isValid = "true"
       /\ (\E b \in Bodies \ {req.body} :
                req.signature = SignatureOf(env.secret, req.timestamp, b))
            => loc.isValid = "false"

\* a fresh request signed over the same document written with other bytes
\* is refused
C3_Witness ==
    /\ handler = "webhook" /\ env.secret # "" /\ loc.isValid = "false"
    /\ Numeric(req.timestamp)
    /\ Within(loc.currentTime, req.timestamp)
    /\ req.signature = SignatureOf(env.secret, req.timestamp, Reformatted(req.body))
    /\ Reformatted(req.body) \in Bodies

\* C4 as stated: every response of handleSlackWebhook has status 200 unless
\* signature verification is configured and fails (then 401).
C4_Always200 ==
    (handler = "webhook" /\ pc = "done") =>
        \/ resp.status = 200
        \/ resp.status = 401 /\ env.secret # "" /\ loc.isValid = "false"

\* C4 amended: the response status is 200 unless signature verification is
\* configured and fails (401) or reading the request body throws (500); once
\* the body is read and the gate passed, no failure while parsing the body,
\* calling the model, fetching history or posting to Slack yields a non-200
\* response.
C4_Status ==
    (handler = "webhook" /\ pc = "done") =>
        /\ resp.status \in {200, 401, 500}
        /\ resp.status = 401 <=> (env.secret # "" /\ loc.isValid = "false")
        /\ resp.status = 500 <=> ~loc.bodyRead
        /\ parsed => resp.status = 200

\* a request whose model call threw, or whose post failed, is answered 200
C4_Witness ==
    /\ handler = "webhook" /\ pc = "done" /\ resp.status = 200
    /\ \/ loc.error # ""
       \/ posts # <<>> /\ LastPost.result = "failed"

\* C5: for a url_verification payload that passes the signature gate the
\* response body is exactly the payload's challenge, and the request makes
\* no model call and no Slack call.
C5_ChallengeEcho ==
    (/\ handler = "webhook" /\ loc.bodyRead /\ GatePassed
     /\ Payload.kind = "object" /\ Payload.type = "url_verification")
    => /\ ~MadeCalls
       /\ pc = "done" => (resp.status = 200 /\ resp.body = Payload.challenge)

\* a correctly signed handshake has been answered
C5_Witness ==
    /\ handler = "webhook" /\ pc = "done" /\ parsed
    /\ env.secret # "" /\ loc.isValid = "true"
    /\ Payload.kind = "object" /\ Payload.type = "url_verification"
    /\ resp.body = "abc123"

\* an event_callback payload whose event is a message with a bot_id
BotMessage ==
    /\ Payload.kind = "object" /\ Payload.type = "event_callback" /\ Payload.hasEvent
    /\ Payload.event.type = "message" /\ Payload.event.bot_id # ""

\* C6: for an event_callback payload whose event has type message and a
\* bot_id, handleSlackWebhook never calls the model and posts nothing,
\* whatever the text contains.
C6_BotMessagesIgnored ==
    (handler = "webhook" /\ BotMessage) => (aiCalls = 0 /\ histCalls = 0 /\ posts = <<>>)

\* a bot message whose text has a planning keyword has been handled
C6_Witness ==
    /\ handler = "webhook" /\ pc = "done" /\ parsed /\ BotMessage
    /\ Payload.event.textKind = "string" /\ hasEventKeyword(Payload.event.text)
    /\ resp.status = 200

\* C7: for an approval request with approved = false, handleEventApproval
\* leaves the plan's status and updatedAt unchanged, never calls the Slack
\* delivery dependency, and returns a success discard acknowledgment.
C7_DiscardChangesNothing ==
    (handler = "approval" /\ req.jsonOk /\ ~req.approved) =>
        /\ posts = <<>>
        /\ pc = "done" =>
              /\ plan.status = req.eventPlan.status
              /\ plan.updatedAt = req.eventPlan.updatedAt
              /\ resp.status = 200 /\ resp.success = "true"
              /\ resp.message = "Event plan discarded"
              /\ ~resp.hasPlan

\* a draft was discarded although a channel and a token were there
C7_Witness ==
    /\ handler = "approval" /\ pc = "done"
    /\ req.jsonOk /\ req.hasPlan /\ ~req.approved
    /\ req.slackChannelId # "" /\ env.token # ""
    /\ req.eventPlan.status = "draft"
    /\ resp.success = "true"

\* the approval asked for a delivery and the delivery call returned failure
DeliveryFailed ==
    /\ handler = "approval" /\ pc = "done"
    /\ req.jsonOk /\ req.approved /\ req.slackChannelId # "" /\ env.token # ""
    /\ posts # <<>> /\ LastPost.result = "failed"

\* C8: for an approval with approved = true, a channel and a bot token,
\* when the delivery call returns failure the returned plan has status
\* approved, success is false and the response carries the delivery error.
C8_FailedDeliveryStaysApproved ==
    DeliveryFailed =>
        /\ resp.hasPlan /\ resp.eventPlan.status = "approved"
        /\ resp.success = "false"
        /\ resp.error = <<"Failed to post to Slack: ", LastPost.error>>

\* Slack answered channel_not_found for a plan that was a draft
C8_Witness ==
    /\ DeliveryFailed
    /\ req.eventPlan.status = "draft"
    /\ LastPost.error = "channel_not_found"
    /\ resp.status = 400

\* the delivery call of the request returned ok
Delivered == posts # <<>> /\ LastPost.result = "ok"

\* C9: in every response to a request with approved = true that returns a
\* plan, the plan has status sent_to_slack if and only if a channel was
\* supplied, a bot token is configured and the delivery call returned ok;
\* otherwise its status is approved; a sent_to_slack plan carries a
\* slackChannelId.
C9_SentIffDelivered ==
    (handler = "approval" /\ pc = "done" /\ req.jsonOk /\ req.approved /\ resp.hasPlan) =>
        /\ resp.eventPlan.status = "sent_to_slack"
              <=> (req.slackChannelId # "" /\ env.token # "" /\ Delivered)
        /\ resp.eventPlan.status \in {"approved", "sent_to_slack"}
        /\ resp.eventPlan.status = "sent_to_slack" =>
              resp.eventPlan.slackChannelId = req.slackChannelId

\* a draft without a channel of its own was approved and delivered
C9_Witness ==
    /\ handler = "approval" /\ pc = "done" /\ req.approved /\ resp.hasPlan
    /\ req.eventPlan.status = "draft" /\ req.eventPlan.slackChannelId = ""
    /\ resp.eventPlan.status = "sent_to_slack"
    /\ resp.eventPlan.slackChannelId = "C1"

\* C10: the status only moves forward in the order draft < approved <
\* sent_to_slack: the status of the plan handleEventApproval returns is
\* never earlier in that order than the status of the submitted plan.
C10_StatusForward ==
    (handler = "approval" /\ pc = "done" /\ resp.hasPlan) =>
        StatusRank(resp.eventPlan.status) >= StatusRank(req.eventPlan.status)

\* handleSlackMention decoded a plan and the post of its rich message
\* returned ok
MentionDelivered ==
    /\ handler = "webhook" /\ pc = "done"
    /\ MentionDecodes(loc.aiOut)
    /\ posts # <<>> /\ LastPost.kind = "rich" /\ LastPost.result = "ok"

\* C11: when handleSlackMention decodes a plan from the model output and the
\* send of that plan to Slack succeeds, the plan's status is sent_to_slack: a
\* mention-triggered plan does not remain in draft after a successful send.
C11_MentionPlanSent ==
    MentionDelivered => plan.status = "sent_to_slack"

\* C12: handleChatRequest never calls the Slack delivery dependency (nor
\* the history): when a plan is decoded it is returned with status draft and
\* needsApproval = true, and a plan is delivered through the approval
\* endpoint only by a request with approved = true.
C12_ChatNeverDelivers ==
    /\ handler = "chat" => (posts = <<>> /\ histCalls = 0)
    /\ (handler = "chat" /\ pc = "done" /\ ChatDecodes(loc.aiOut)) =>
           /\ resp.status = 200 /\ resp.hasPlan /\ resp.needsApproval
           /\ resp.eventPlan.status = "draft"
           /\ resp.eventPlan = plan
    /\ (handler = "chat" /\ pc = "done" /\ resp.hasPlan) => ChatDecodes(loc.aiOut)
    /\ (handler = "approval" /\ posts # <<>>) => (req.jsonOk /\ req.approved)

\* the chat endpoint returned a draft for approval although a bot token is
\* configured, and the draft as returned is one the approval endpoint takes
C12_Witness ==
    /\ handler = "chat" /\ pc = "done" /\ env.token # ""
    /\ resp.hasPlan /\ resp.needsApproval /\ resp.eventPlan.status = "draft"
    /\ posts = <<>>
    /\ resp.eventPlan \in Plans

\* the plan's message is in the channel
Published ==
    /\ pc \in {"hs_recover", "hs_done"}
    /\ posts # <<>> /\ LastPost.kind = "rich" /\ LastPost.result = "ok"

\* the representable subset: title, date, budget, venue and timeline, no
\* guests and no description
Representable(p) ==
    /\ p.title # <<>> /\ p.date # "" /\ p.hasBudget /\ p.venue # ""
    /\ p.timeline # <<>>
    /\ p.guests = <<>> /\ p.description = ""

RECURSIVE Joined(_)
\* the words of a line written without spaces
Joined(line) == IF line = <<>> THEN "" ELSE Head(line) \o Joined(Tail(line))

\* C13: for every plan with a title, date, budget, venue and non-empty
\* timeline and with no guests and no description, extractEventFromBlocks of
\* the blocks produced by formatEventMessage yields a title, date, budget
\* and venue identical to the plan's and a timeline list identical to the
\* plan's timeline in content and order.
C13_RoundTrip ==
    (Published /\ Representable(plan)) =>
        LET d == extractEventFromBlocks(LastPost.blocks)
        IN  /\ d.hasTitle /\ d.title = plan.title
            /\ d.hasDate /\ d.date = <<plan.date>>
            /\ d.hasBudget /\ Joined(d.budget) = ToString(plan.budget)
            /\ d.hasVenue /\ d.venue = <<plan.venue>>
            /\ d.hasTimeline
            /\ d.timeline = [i \in 1..Len(plan.timeline) |-> <<plan.timeline[i]>>]

\* a word is part of a recovered plan: of its title, date, budget, venue or
\* of a line of its timeline
Carries(d, word) ==
    \/ Includes(d.title, word) \/ Includes(d.date, word)
    \/ Includes(d.budget, word) \/ Includes(d.venue, word)
    \/ LinesInclude(d.timeline, word)

\* C14: for every plan that has guests and a description, what
\* extractEventFromBlocks and extractEventFromText recover from the message
\* produced by formatEventMessage has neither the guest list nor the
\* description: no guest and no description text is part of it.
C14_GuestsAndDescriptionLost ==
    (Published /\ plan.guests # <<>> /\ plan.description # "") =>
        \A d \in {extractEventFromBlocks(LastPost.blocks), extractEventFromText(LastPost.text)} :
            /\ \A i \in 1..Len(plan.guests) : ~Carries(d, plan.guests[i])
            /\ ~Carries(d, plan.description)

\* a plan with two guests, a description and a timeline was published and
\* its blocks decode to a plan with a timeline
C14_Witness ==
    /\ Published
    /\ Len(plan.guests) = 2 /\ plan.description = "fun" /\ plan.timeline # <<>>
    /\ extractEventFromBlocks(LastPost.blocks).hasTimeline
    /\ ~extractEventFromBlocks(LastPost.blocks).isNull

\* the test of findRecentEventPlan's loop on one message
LooksLikePlan(m) == (m.hasBlocks /\ hasEventHeader(m.blocks)) \/ TextLooksLikePlan(m.text)

\* what the loop returns for a message it stops at
DecodeOf(m) ==
    IF m.hasBlocks /\ hasEventHeader(m.blocks) THEN extractEventFromBlocks(m.blocks)
    ELSE extractEventFromText(m.text)

\* the message is a plan message: rich blocks built by formatEventMessage
ContainsPlan(m) == m.hasBlocks

\* C15: for every list of messages in newest-first order, findRecentEventPlan
\* returns the decode of the first message that looks like a plan and of
\* that message only, null when no message looks like a plan, and, when
\* exactly one message at any position contains a plan, that plan's partial
\* reconstruction.
C15_FirstPlanOnly ==
    (pc = "hs_done" /\ histCalls > 0) =>
        LET messages == loc.recentMessages
            result   == loc.recentEventPlan
            firsts   == {i \in 1..Len(messages) :
                            /\ LooksLikePlan(messages[i])
                            /\ \A j \in 1..(i - 1) : ~LooksLikePlan(messages[j])}
            withPlan == {i \in 1..Len(messages) : ContainsPlan(messages[i])}
        IN  /\ firsts = {} => result.isNull
            /\ \A i \in firsts : result = DecodeOf(messages[i])
            /\ Cardinality(withPlan) = 1 =>
                  \A i \in withPlan :
                      /\ ~result.isNull
                      /\ result = extractEventFromBlocks(messages[i].blocks)

\* the request is an app_mention that reached handleSlackMention's decoder
MentionOutput ==
    /\ handler = "webhook" /\ pc = "done" /\ parsed
    /\ Route(Payload, env) \in {"mention_ai", "mention_history"}
    /\ loc.aiOut # NoOutput

\* the chat endpoint received a model output
ChatOutput == handler = "chat" /\ pc = "done" /\ loc.aiOut # NoOutput

\* the output, as a whole, is not valid JSON or is JSON without
\* action = create_event and an event object
NotPlanJson(out) == ParseText(out.kind) # "plan" /\ out.kind # "object_plan"

\* the reply is the model output as it came, and nothing else
ChatVerbatim ==
    /\ resp.status = 200
    /\ resp.response = OutputText(loc.aiOut)
    /\ ~resp.hasPlan /\ ~resp.needsApproval

\* the one message posted is the model output as it came, without blocks
MentionVerbatim ==
    /\ Len(posts) = 1
    /\ posts[1].kind = "plain" /\ posts[1].blocks = <<>>
    /\ posts[1].text = OutputText(loc.aiOut)
    /\ posts[1].channel = Payload.event.channel

\* C16 as stated: for every model output that is not valid JSON or is JSON
\* without action = create_event and an event object, the chat endpoint
\* returns the output unchanged and no eventPlan, and the mention path
\* posts the output unchanged as a plain message.
C16_Verbatim ==
    /\ (ChatOutput /\ NotPlanJson(loc.aiOut)) => ChatVerbatim
    /\ (MentionOutput /\ NotPlanJson(loc.aiOut)) => MentionVerbatim

\* C16 amended: the mention path posts every such output unchanged as a
\* plain message; the chat endpoint returns it unchanged and without an
\* eventPlan unless the output holds a ``` or ```json fence around plan
\* JSON, which the chat endpoint decodes (and the mention path posts as it
\* came).
C16_VerbatimUnlessFenced ==
    /\ (ChatOutput /\ NotPlanJson(loc.aiOut) /\ ParseText(FenceContents(loc.aiOut)) # "plan")
           => ChatVerbatim
    /\ (ChatOutput /\ ParseText(FenceContents(loc.aiOut)) = "plan")
           => (resp.hasPlan /\ resp.response # OutputText(loc.aiOut))
    /\ (MentionOutput /\ NotPlanJson(loc.aiOut)) => MentionVerbatim

\* the chat endpoint returned JSON that is no plan as it came
C16_Witness ==
    /\ ChatOutput /\ loc.aiOut.kind = "json_other"
    /\ resp.response = OutputText(loc.aiOut) /\ ~resp.hasPlan

\* the output holds a ``` or ```json fence around an object
Fenced(out) == out.kind \in {"fenced_plan", "prose_fenced_plan", "fenced_other"}

C18_NoTokenNoCalls ==
    env.token = "" => (posts = <<>> /\ histCalls = 0)

\* the body of the webhook request is not parseable JSON
MalformedBody == handler = "webhook" /\ req.body.doc.kind = "malformed"

\* C19: for every webhook request whose body is not parseable JSON and that
\* passes the signature gate, handleSlackWebhook makes no model call and no
\* Slack call and responds 200.
C19_MalformedAbsorbed ==
    MalformedBody =>
        /\ ~MadeCalls
        /\ (pc = "done" /\ loc.bodyRead /\ GatePassed) =>
               (parsed /\ resp.status = 200 /\ resp.body = "OK")

\* a correctly signed request with an unparseable body was answered 200
C19_Witness ==
    /\ MalformedBody /\ pc = "done" /\ parsed
    /\ env.secret # "" /\ loc.isValid = "true"
    /\ resp.status = 200

\* the failures handleEventApproval does not expect: the body is no JSON,
\* or the plan cannot be rendered
UnexpectedFailure ==
    \/ ~req.jsonOk
    \/ req.hasPlan /\ FormatThrows(req.eventPlan)

\* C20: for every approval request with approved = true whose body lacks
\* the eventPlan field, handleEventApproval answers with a 4xx status, and
\* it answers 5xx with a JSON {error} body only for unexpected failures.
C20_MissingPlanIs4xx ==
    (handler = "approval" /\ pc = "done") =>
        /\ (req.jsonOk /\ req.approved /\ ~req.hasPlan) =>
               (resp.status >= 400 /\ resp.status < 500)
        /\ resp.status >= 500 => (resp.error # <<>> /\ UnexpectedFailure)

\* C21: the mention path and the chat path apply the same plan decoder: for
\* every model output, handleSlackMention treats the output as an event plan
\* exactly when handleChatRequest would decode it as an event plan, outputs
\* that wrap the plan JSON in a code fence included.
C21_SameDecoder ==
    /\ MentionOutput => (plan # NoPlan <=> ChatDecodes(loc.aiOut))
    /\ ChatOutput => (resp.hasPlan <=> MentionDecodes(loc.aiOut))

\* handleSlackMention holds a plan it synthesized from the model output
MentionSynthesized ==
    /\ handler = "webhook" /\ parsed
    /\ Route(Payload, env) \in {"mention_ai", "mention_history"}
    /\ loc.aiOut # NoOutput /\ plan # NoPlan

\* the synthesized fields of a plan made from the event ev no later than now
SynthesizedFresh(p, ev) ==
    /\ p.status = "draft"
    /\ p.createdAt = p.updatedAt
    /\ p.createdAt >= StartTime /\ p.createdAt <= now
    /\ p.id = FreshId /\ p.id # ev.id

\* C22: for every model event object, including one that itself has id,
\* status, createdAt or updatedAt, the plan synthesized by the decoder has
\* status draft, creation and update timestamps taken from the current time,
\* and an identifier that is the freshly generated one and never a value
\* supplied by the model.
C22_SynthesizedFields ==
    /\ MentionSynthesized => SynthesizedFresh(plan, ModelEvent(loc.aiOut.ev))
    /\ (ChatOutput /\ resp.hasPlan) =>
           (SynthesizedFresh(resp.eventPlan, ModelEvent(loc.aiOut.ev))
            /\ resp.eventPlan.createdAt = now)

\* C23: for every plan synthesized by handleSlackMention the destination
\* channel is the channel of the mention event, also when the model's event
\* object has a slackChannelId of its own, and the plan is posted to that
\* channel only.
C23_MentionChannel ==
    MentionSynthesized =>
        /\ plan.slackChannelId = Payload.event.channel
        /\ \A i \in 1..Len(posts) : posts[i].channel = Payload.event.channel

\* a plan whose event named another channel was delivered to the channel
\* of the mention
C23_Witness ==
    /\ MentionSynthesized /\ MentionDelivered
    /\ ModelEvent(loc.aiOut.ev).slackChannelId = "C7"
    /\ LastPost.channel = "C1" /\ plan.slackChannelId = "C1"

\* the plan a handler held before a step: the submitted plan when the
\* approval handler has not touched it yet, nothing when the step creates it
PlanBefore ==
    IF plan # NoPlan THEN plan
    ELSE IF handler' = "approval" THEN req'.eventPlan
    ELSE plan'

\* C24: in every code path each change of a plan's status comes with
\* updatedAt set to the current time, and createdAt is never modified after
\* the plan is synthesized.
C24_StatusChangeRefreshes ==
    [][(plan' # plan /\ handler' # "none") =>
          /\ plan'.status # PlanBefore.status => plan'.updatedAt = now
          /\ plan'.createdAt = PlanBefore.createdAt]_vars

\* an approved plan was marked sent one second after it was approved; its
\* updatedAt is the time of the send and its createdAt the submitted one
C24_Witness ==
    /\ handler = "approval" /\ pc = "done"
    /\ plan.status = "sent_to_slack" /\ req.eventPlan.status = "draft"
    /\ now = StartTime + 1
    /\ plan.updatedAt = now
    /\ plan.createdAt = req.eventPlan.createdAt

\* the history call failed: a non-2xx status, a body whose ok is not true,
\* or an exception of the network or of the body parse
HistoryFailed(answer) ==
    \/ answer.status < 200 \/ answer.status > 299
    \/ ~answer.ok
    \/ answer.throws

\* C25: getRecentChannelMessages never throws and returns the empty list
\* whenever the history call fails: for every response with a non-2xx HTTP
\* status, for every body with ok not true, and for every network or
\* body-parse exception.
C25_HistoryFailureIsEmpty ==
    (handler = "webhook" /\ loc.historyResponse # NoHistoryResponse
     /\ HistoryFailed(loc.historyResponse))
    => (loc.recentMessages = <<>> /\ loc.recentEventPlan.isNull)

\* a message event without bot_id and with a text string has been dispatched
AmbientMessage ==
    /\ handler = "webhook" /\ parsed
    /\ Payload.kind = "object" /\ Payload.type = "event_callback" /\ Payload.hasEvent
    /\ Payload.event.type = "message" /\ Payload.event.bot_id = ""
    /\ Payload.event.textKind = "string"

\* the text contains, whatever the case, one of the five event words
MentionsAnEvent(text) ==
    \E i \in 1..Len(text) :
        \E k \in {"plan", "event", "party", "meeting", "celebration"} :
            WordIncludes(Lower(text[i]), k)

\* C26: for a message event without bot_id and with text, a text with one of
\* plan/event/party/meeting/celebration (in any case) makes exactly one model
\* call with the general prompt, and the reply is posted as plain text, not
\* decoded as a plan and without blocks; a failed model call posts nothing;
\* a text without a keyword makes no model call and no post.
C26_AmbientMessage ==
    (AmbientMessage /\ pc = "done") =>
        IF MentionsAnEvent(Payload.event.text)
        THEN /\ aiCalls = 1 /\ histCalls = 0
             /\ loc.prompt = GeneralPrompt(Payload.event.text, FALSE)
             /\ plan = NoPlan
             /\ IF loc.error # ""
                THEN posts = <<>>
                ELSE /\ Len(posts) = 1
                     /\ posts[1].kind = "plain"
                     /\ posts[1].channel = Payload.event.channel
                     /\ posts[1].text = OutputText(loc.aiOut)
                     /\ posts[1].blocks = <<>>
        ELSE aiCalls = 0 /\ posts = <<>>

\* a capitalised keyword alone triggers the call, and a plan-shaped reply
\* goes out as plain text
C26_Witness ==
    /\ AmbientMessage /\ pc = "done"
    /\ Payload.event.text = <<"Party", "time">>
    /\ loc.aiOut.kind = "json_plan"
    /\ Len(posts) = 1 /\ posts[1].kind = "plain" /\ posts[1].result = "ok"
    /\ plan = NoPlan

\* an app_mention event with a text string has been dispatched
MentionEvent ==
    /\ handler = "webhook" /\ parsed
    /\ Payload.kind = "object" /\ Payload.type = "event_callback" /\ Payload.hasEvent
    /\ Payload.event.type = "app_mention" /\ Payload.event.textKind = "string"

\* the text contains, whatever the case, one of the six modification words
WantsModification(text) ==
    \E i \in 1..Len(text) :
        \E k \in {"swap", "change", "modify", "update", "move", "history"} :
            WordIncludes(Lower(text[i]), k)

\* the prompt is the narrowed one built from the recovered plan: its title
\* and its first entries, at most 7, in the plan's order and renumbered
NarrowedFrom(prompt, recent, text) ==
    LET n == IF Len(recent.timeline) > 7 THEN 7 ELSE Len(recent.timeline)
    IN  /\ prompt.system = "focused" /\ prompt.user = text /\ ~prompt.note
        /\ recent.hasTitle => prompt.title = recent.title
        /\ n > 0 =>
             /\ Len(prompt.timeline) = n
             /\ \A i \in 1..n :
                  prompt.timeline[i] = <<ToString(i), ".">> \o StripNumbering(recent.timeline[i])

\* C27: handleSlackMention calls the history only when the cleaned text has
\* one of swap/change/modify/update/move/history; then a recovered plan gives
\* the model the narrowed prompt (title and at most the first 7 timeline
\* entries, in order) and no recovered plan gives the general prompt with the
\* no-context note appended to the user text; a text without a modification
\* word gives the general prompt and the unmodified cleaned text.
C27_MentionPrompt ==
    MentionEvent =>
        LET text == CleanText(Payload.event.text)
        IN  /\ histCalls > 0 => WantsModification(text)
            /\ (aiCalls > 0 /\ ~WantsModification(text)) =>
                   loc.prompt = GeneralPrompt(text, FALSE)
            /\ (aiCalls > 0 /\ histCalls > 0) =>
                   IF ~loc.recentEventPlan.isNull
                   THEN NarrowedFrom(loc.prompt, loc.recentEventPlan, text)
                   ELSE loc.prompt = GeneralPrompt(text, TRUE)

\* a plan of 8 timeline entries was recovered and 7 of them reached the model
C27_Witness ==
    /\ MentionEvent /\ pc = "done" /\ histCalls = 1 /\ aiCalls = 1
    /\ ~loc.recentEventPlan.isNull
    /\ Len(loc.recentEventPlan.timeline) = 8
    /\ Len(loc.prompt.timeline) = 7
    /\ loc.prompt.timeline[7] = <<"7", ".", "t7">>

\* the apology handleSlackMention posted, when it posted one
ApologyPosted == posts # <<>> /\ LastPost.kind = "apology"

\* the apology kept for a model call that did not answer in time
TimeoutApology ==
    << <<"I'm experiencing some technical difficulties right now. Please try your request again in a moment.">> >>

\* C28: handleSlackMention posts the dedicated timeout apology if and only
\* if the model call did not complete within 15 seconds; every other failure
\* of the model call gets a different message, which includes the failure's
\* own error text.
C28_TimeoutApologyOnlyOnTimeout ==
    (MentionEvent /\ ApologyPosted) =>
        /\ LastPost.text = TimeoutApology <=> loc.error = TimeoutError
        /\ loc.error # TimeoutError =>
               \E i \in 1..Len(LastPost.text) :
                   \E j \in 1..Len(LastPost.text[i]) : LastPost.text[i][j] = loc.error

\* the model output is a string that JSON.parse rejects
DecodeFails(out) ==
    out.kind \in {"prose", "fenced_other", "fenced_plan", "prose_fenced_plan", "tagged_plan"}

\* the model call, the decode or the delivery of the plan or reply failed
MentionFailed ==
    \/ loc.error # ""
    \/ loc.aiOut # NoOutput /\ DecodeFails(loc.aiOut)
    \/ \E i \in 1..Len(posts) : posts[i].kind \in {"rich", "plain"} /\ posts[i].result = "failed"

\* C29: in handleSlackMention every failure of the model call, of the decode
\* or of the delivery of the plan or reply (a delivery that returns ok = false
\* included) gets a plain-text apology posted to the same channel, and a
\* failure while posting the apology does not leave the handler.
C29_FailureApologises ==
    (MentionEvent /\ pc = "done" /\ MentionFailed) =>
        /\ \E i \in 1..Len(posts) :
              /\ posts[i].kind = "apology"
              /\ posts[i].channel = Payload.event.channel
              /\ posts[i].blocks = <<>>
        /\ resp = Ok200

\* 1 when the optional part is there, else 0
Count(present) == IF present THEN 1 ELSE 0

\* the block is a section whose first line is the label
Labelled(block, label) ==
    block.type = "section" /\ block.text # <<>> /\ block.text[1] = <<label>>

\* C30: for every plan, formatEventMessage produces in this order: a header
\* with the title; a fields block with exactly four fields, date, guest count
\* (or TBD), budget, venue (or TBD); a description block iff the description
\* is non-empty; a timeline block iff the timeline is non-empty, its items
\* numbered from 1 in the plan's order; a guest-list block iff guests is
\* non-empty, in the plan's order; then a divider and a context block, the
\* last two blocks.
C30_BlockOrder ==
    (posts # <<>> /\ posts[1].kind = "rich") =>
        LET b == posts[1].blocks
            d == Count(plan.description # "")
            t == Count(plan.timeline # <<>>)
            g == Count(plan.guests # <<>>)
        IN  /\ Len(b) = 4 + d + t + g
            /\ b[1].type = "header" /\ b[1].text = <<plan.title>>
            /\ b[2].type = "section" /\ Len(b[2].fields) = 4
            /\ b[2].fields[1][1] = <<"*Date:*">>
            /\ b[2].fields[2][1] = <<"*Expected Guests:*">>
            /\ b[2].fields[2][2] = IF plan.guests = <<>> THEN <<"TBD">>
                                   ELSE <<ToString(Len(plan.guests))>>
            /\ b[2].fields[3][1] = <<"*Budget:*">>
            /\ b[2].fields[4][1] = <<"*Venue:*">>
            /\ b[2].fields[4][2] = IF plan.venue = "" THEN <<"TBD">> ELSE <<plan.venue>>
            /\ d = 1 => /\ Labelled(b[3], "*Description:*")
                        /\ b[3].text[2] = <<plan.description>>
            /\ t = 1 => /\ Labelled(b[3 + d], "*Timeline:*")
                        /\ Len(b[3 + d].text) = 1 + Len(plan.timeline)
                        /\ \A i \in 1..Len(plan.timeline) :
                             b[3 + d].text[i + 1] = <<ToString(i), ".", plan.timeline[i]>>
            /\ g = 1 => /\ Labelled(b[3 + d + t], "*Guest List:*")
                        /\ Len(b[3 + d + t].text) = 1 + Len(plan.guests)
                        /\ \A i \in 1..Len(plan.guests) :
                             LET line == b[3 + d + t].text[i + 1]
                             IN  line[Len(line)] = plan.guests[i]
            /\ b[Len(b) - 1].type = "divider"
            /\ b[Len(b)].type = "context"

\* a plan with a description, a timeline and guests went out in 7 blocks
C30_Witness ==
    /\ Published
    /\ plan.description # "" /\ plan.timeline # <<>> /\ plan.guests # <<>>
    /\ Len(posts[1].blocks) = 7
    /\ Labelled(posts[1].blocks[4], "*Timeline:*")
    /\ posts[1].blocks[7].type = "context"

\* C31: for every plan without a destination channel postEventPlan returns
\* a failure result without any network call; for every plan with a channel
\* the message sent targets exactly that channel and carries the fallback text
\* "Event Plan: " followed by the title.
C31_ChannelOrFailure ==
    (pc = "hs_done" \/ pc = "hs_recover") =>
        /\ plan.slackChannelId = "" =>
              /\ posts = <<>>
              /\ ~loc.result.ok /\ loc.result.error # ""
        /\ \A i \in 1..Len(posts) :
              /\ posts[i].channel = plan.slackChannelId
              /\ posts[i].channel # ""
              /\ posts[i].text = << <<"Event", "Plan:">> \o plan.title >>

\* a plan without channel was refused
C31_Witness ==
    /\ pc = "hs_done" /\ plan.slackChannelId = "" /\ posts = <<>>
    /\ loc.result = [ok |-> FALSE, error |-> "No Slack channel ID specified"]

\* C34: an app_mention handled by handleSlackMention makes at most one
\* posting attempt: the rich plan, the plain reply and the apology exclude
\* each other in every execution, those where encoding the plan throws or
\* the model call fails included.
C34_OnePostPerMention ==
    MentionEvent =>
        /\ Len(posts) <= 1
        /\ posts # <<>> =>
              /\ posts[1].kind \in {"rich", "plain", "apology"}
              /\ posts[1].kind = "apology" <=> loc.error # ""

\* the model returned a plan that formatEventMessage cannot encode: one
\* plain post and nothing else
C34_Witness ==
    /\ MentionEvent /\ pc = "done"
    /\ MentionDecodes(loc.aiOut) /\ FormatThrows(plan)
    /\ Len(posts) = 1 /\ posts[1].kind = "plain" /\ posts[1].result = "failed"

\* an event that carries a bot_id has been dispatched
BotEvent ==
    /\ handler = "webhook" /\ parsed
    /\ Payload.kind = "object" /\ Payload.type = "event_callback" /\ Payload.hasEvent
    /\ Payload.event.bot_id # ""

\* C35: no event that carries a bot_id causes a model call or a Slack post,
\* whatever its type: the guard covers app_mention events as well as message
\* events.
C35_BotEventsIgnored ==
    BotEvent => (aiCalls = 0 /\ histCalls = 0 /\ posts = <<>>)

\* C36: verifySlackSignature returns true only if the timestamp parses to a
\* number within 300 seconds of the current time: an empty or non-numeric
\* timestamp is refused whatever the signature.
C36_TimestampRequired ==
    (handler = "webhook" /\ env.secret # "" /\ loc.isValid = "true") =>
        (Numeric(req.timestamp) /\ Within(loc.currentTime, req.timestamp))

\* the history was read after the plan's message went out
Recovered == pc = "hs_done" /\ histCalls > 0 /\ Published

\* C37: every plan message the bot publishes is recoverable as context: for
\* every plan with a non-empty title, the message built by formatEventMessage,
\* returned as the newest message of the history, is recognised by
\* findRecentEventPlan, which returns a non-null reconstruction carrying the
\* plan's title, whatever the words of the title.
C37_PublishedIsRecoverable ==
    (/\ Recovered
     /\ plan.title # <<>>
     /\ loc.recentMessages # <<>>
     /\ Head(loc.recentMessages) = AsHistoryMessage(LastPost))
    => /\ ~loc.recentEventPlan.isNull
       /\ loc.recentEventPlan.hasTitle
       /\ loc.recentEventPlan.title = plan.title

\* the message on its own decodes to a non-empty plan
Decodable(m) == LooksLikePlan(m) /\ ~DecodeOf(m).isNull

\* C38: findRecentEventPlan returns a non-null reconstruction whenever at
\* least one message of the window decodes to a non-empty plan: a newer
\* message that looks like a plan and yields no field does not stop the scan
\* or hide an older decodable plan.
C38_OlderPlanNotHidden ==
    (pc = "hs_done" /\ histCalls > 0
     /\ \E i \in 1..Len(loc.recentMessages) : Decodable(loc.recentMessages[i]))
    => ~loc.recentEventPlan.isNull

\* C39: whenever handleSlackMention decodes the model output as a plan, the
\* message posted to the channel is the rich plan message, for every event
\* object the model may supply, one without a guests list or a budget
\* included; the raw model JSON is never posted as a plain reply then.
C39_DecodedPlanIsRich ==
    (MentionEvent /\ pc = "done" /\ loc.aiOut # NoOutput /\ MentionDecodes(loc.aiOut)) =>
        /\ posts # <<>>
        /\ \A i \in 1..Len(posts) : posts[i].kind = "rich" /\ posts[i].blocks # <<>>

\* C40: every webhook request eventually receives a response even if the
\* model call never returns, provided the Slack HTTP calls return: the 15
\* second timer ends the wait for app_mention events, and the same holds for
\* ambient message events that trigger a model call.
C40_WebhookAnswers == (handler = "webhook") ~> (pc = "done")

\* the event of the webhook request a context holds
EventOf(c) == JsonParse(c.req.body).event

\* handleEventApproval on its own, for an approved plan with a channel and a
\* token: one post of the plan, and the response follows from its result
AloneApproval(c) ==
    LET approved == [c.req.eventPlan EXCEPT !.status = "approved", !.updatedAt = now,
                                            !.slackChannelId = c.req.slackChannelId]
        sent     == [approved EXCEPT !.status = "sent_to_slack"]
        message  == formatEventMessage(approved, now)
    IN  /\ c.aiCalls = 0 /\ c.histCalls = 0 /\ c.loc = NoLocals
        /\ Len(c.posts) = 1
        /\ c.posts[1].kind = "rich" /\ c.posts[1].channel = c.req.slackChannelId
        /\ c.posts[1].text = message.text /\ c.posts[1].blocks = message.blocks
        /\ IF c.posts[1].result = "ok"
           THEN c.resp.status = 200 /\ c.resp.eventPlan = sent /\ c.plan = sent
           ELSE /\ c.resp.status = 400 /\ c.resp.eventPlan = approved /\ c.plan = approved
                /\ c.resp.error = <<"Failed to post to Slack: ", c.posts[1].error>>

\* handleSlackMessage on its own, for a text with a keyword: one model call
\* with the text, and the reply posted unless the call failed
AloneMessage(c) ==
    /\ c.aiCalls = 1 /\ c.histCalls = 0 /\ c.plan = NoPlan /\ c.resp = Ok200
    /\ c.loc.prompt = GeneralPrompt(EventOf(c).text, FALSE)
    /\ c.loc.cleanText = <<>>
    /\ IF c.loc.error # ""
       THEN c.posts = <<>> /\ c.loc.aiOut = NoOutput
       ELSE /\ Len(c.posts) = 1
            /\ c.posts[1].kind = "plain" /\ c.posts[1].channel = EventOf(c).channel
            /\ c.posts[1].text = OutputText(c.loc.aiOut) /\ c.posts[1].blocks = <<>>

\* handleSlackMention on its own, for a text without modification word: one
\* model call with the cleaned text, then the plan, the reply or the apology
AloneMention(c) ==
    LET text      == CleanText(EventOf(c).text)
        eventPlan == MentionPlan(ModelEvent(c.loc.aiOut.ev), EventOf(c).channel, now)
    IN  /\ c.aiCalls = 1 /\ c.histCalls = 0 /\ c.resp = Ok200
        /\ c.loc.cleanText = text /\ c.loc.prompt = GeneralPrompt(text, FALSE)
        /\ Len(c.posts) = 1 /\ c.posts[1].channel = EventOf(c).channel
        /\ IF c.loc.error # ""
           THEN /\ c.posts[1].kind = "apology" /\ c.posts[1].text = Apology(c.loc.error)
                /\ c.plan = NoPlan /\ c.loc.aiOut = NoOutput
           ELSE IF MentionDecodes(c.loc.aiOut) /\ ~FormatThrows(eventPlan)
           THEN /\ c.posts[1].kind = "rich" /\ c.plan = eventPlan
                /\ c.posts[1].blocks = formatEventMessage(eventPlan, now).blocks
           ELSE /\ c.posts[1].kind = "plain" /\ c.posts[1].blocks = <<>>
                /\ c.posts[1].text = OutputText(c.loc.aiOut)

\* what a request gets and causes when it is handled with no other request
\* around, as a function of the request and of the answers it received
HandledAlone(c) ==
    CASE c.handler = "approval" -> AloneApproval(c)
      [] c.handler = "webhook" /\ ~c.loc.bodyRead ->
             c.resp = TextResponse(500, "Error") /\ c.aiCalls = 0 /\ c.posts = <<>>
      [] c.handler = "webhook" /\ c.loc.bodyRead /\ EventOf(c).type = "message" ->
             AloneMessage(c)
      [] c.handler = "webhook" /\ c.loc.bodyRead /\ EventOf(c).type = "app_mention" ->
             AloneMention(c)
      [] OTHER -> FALSE

\* C32: requests are handled independently: for every pair of requests and
\* every interleaving of their steps, each request's response and external
\* calls are those it has when the requests run one after the other, no
\* state being shared between requests.
C32_Independent ==
    /\ pc = "done" => HandledAlone(Running)
    /\ waiting.pc = "done" => HandledAlone(waiting)

\* an approval was received, delivered and answered while a mention was
\* suspended at its model call
C32_Witness ==
    /\ waiting.pc = "mn_ai" /\ waiting.handler = "webhook" /\ waiting.aiCalls = 1
    /\ pc = "done" /\ handler = "approval"
    /\ posts # <<>> /\ posts[1].result = "ok"
    /\ resp.status = 200 /\ resp.eventPlan.status = "sent_to_slack"

\* C33: deliveries are not deduplicated: two requests for the same plan or
\* event (two approvals with approved = true and a channel for the same plan,
\* or the same webhook event delivered twice) each perform their own delivery,
\* so the same plan posted twice to the same channel is reachable.
C33_NoDeduplication ==
    (pc = "done" /\ waiting.pc = "done" /\ req = waiting.req) =>
        /\ handler = "approval" => (Len(posts) = 1 /\ Len(waiting.posts) = 1)
        /\ (handler = "webhook" /\ loc.bodyRead /\ waiting.loc.bodyRead) =>
              /\ aiCalls = 1 /\ waiting.aiCalls = 1
              /\ loc.error = "" => Len(posts) = 1
              /\ waiting.loc.error = "" => Len(waiting.posts) = 1

\* the same plan has been posted to the same channel twice
C33_Witness ==
    /\ pc = "done" /\ waiting.pc = "done" /\ handler = "approval"
    /\ req = waiting.req
    /\ Len(posts) = 1 /\ Len(waiting.posts) = 1
    /\ posts[1].result = "ok" /\ waiting.posts[1].result = "ok"
    /\ posts[1].channel = waiting.posts[1].channel
    /\ posts[1].blocks = waiting.posts[1].blocks

====
